---------------------------- MODULE Spec2Model ----------------------------
(***************************************************************************)
(* The retrieval cache of librarian/flexrag: the batched_cache decorator   *)
(* around LocalRetriever.search, the key canonicalisation it uses, and the *)
(* chunked dispatch to the backend primitive search_batch.                 *)
(***************************************************************************)
EXTENDS Integers, Sequences, FiniteSets, TLC

(***************************************************************************)
(* Bounds of the model.                                                    *)
(***************************************************************************)
\* longest query sequence handed to one search call
MaxQ == 2
\* number of search calls in one behaviour
MaxCalls == 2
\* largest batch_size a retriever is configured with
MaxBatch == 2
\* number of times the backend's contents change (add_passages)
MaxVer == 1
\* number of chunks the backend fails or answers against its contract
MaxFaults == 1

(***************************************************************************)
(* Python values.  Every value carries its Python type in the field py, so *)
(* that isinstance() and == between values of different types are modelled *)
(* by what Python does with them.                                          *)
(***************************************************************************)
PyNone == [py |-> "None"]
PyStr(s) == [py |-> "str", v |-> s]
PyBool(b) == [py |-> "bool", v |-> b]
PyInt(n) == [py |-> "int", v |-> n]
PyList(s) == [py |-> "list", items |-> s]
\* a mapping keeps its insertion order: a sequence of <<key, value>> pairs
PyDict(pairs) == [py |-> "dict", items |-> pairs]
\* a dataclass instance (a structured config), fields in declaration order
PyDataclass(pairs) == [py |-> "dataclass", items |-> pairs]
\* an OmegaConf DictConfig
PyDictConfig(pairs) == [py |-> "DictConfig", items |-> pairs]

IsNone(x) == x.py = "None"
IsList(x) == x.py = "list"
IsMapping(x) == x.py \in {"dict", "dataclass", "DictConfig"}

\* the argument "no keyword given" of a call
Absent == [py |-> "absent"]

(***************************************************************************)
(* RetrievedContext and its dict form.                                     *)
(***************************************************************************)
RetrievedContext(retriever, query, data, source, score) ==
    [py |-> "RetrievedContext", retriever |-> retriever, query |-> query,
     data |-> data, source |-> source, score |-> score]

IsRetrievedContext(x) == x.py = "RetrievedContext"

\* a dict form without the score: the context rebuilt from it has the default
to_dict_without_score(r) ==
    [py |-> "dict", retriever |-> r.retriever, query |-> r.query,
     source |-> r.source, score |-> 0, data |-> r.data]

to_dict(r) ==
    [py |-> "dict", retriever |-> r.retriever, query |-> r.query,
     source |-> r.source, score |-> r.score, data |-> r.data]

\* what iterating a value that is no list raises
TypeError == [py |-> "TypeError"]

\* a serializer that takes a bare context for a list of one
retrieved_to_dict_lenient(data) ==
    IF ~IsList(data) THEN PyList(<<to_dict(data)>>)
    ELSE PyList([i \in 1..Len(data.items) |-> to_dict(data.items[i])])

\* [r.to_dict() for r in data]
retrieved_to_dict(data) ==
    IF ~IsList(data) THEN TypeError
    ELSE PyList([i \in 1..Len(data.items) |-> to_dict(data.items[i])])

\* a reader without the test for None: iterating None raises
dict_to_retrieved_strict(data) ==
    IF IsNone(data) THEN TypeError
    ELSE PyList([i \in 1..Len(data.items) |->
                   RetrievedContext(data.items[i].retriever, data.items[i].query,
                                    data.items[i].data, data.items[i].source,
                                    data.items[i].score)])

\* a reader that takes an empty stored list for no entry
dict_to_retrieved_falsy(data) ==
    IF IsNone(data) \/ data.items = <<>> THEN PyNone
    ELSE PyList([i \in 1..Len(data.items) |->
                   RetrievedContext(data.items[i].retriever, data.items[i].query,
                                    data.items[i].data, data.items[i].source,
                                    data.items[i].score)])

dict_to_retrieved(data) ==
    IF IsNone(data) THEN PyNone
    ELSE PyList([i \in 1..Len(data.items) |->
                   RetrievedContext(data.items[i].retriever, data.items[i].query,
                                    data.items[i].data, data.items[i].source,
                                    data.items[i].score)])


(***************************************************************************)
(* Key canonicalisation: dataclass_to_dict (OmegaConf.to_container) and    *)
(* json.dumps(key, sort_keys=True).  A key is the JSON text.                *)
(***************************************************************************)
\* the mapping keys of the model, in lexicographic (Python str) order
KeyOrder ==
    <<"batch_size", "disable_cache", "log_interval", "no_preprocess", "processors", "query",
      "query_preprocess_pipeline", "retriever_config", "search_kwargs", "top_k">>

KeyRank(k) == CHOOSE i \in 1..Len(KeyOrder) : KeyOrder[i] = k

RECURSIVE to_container(_)
to_container(x) ==
    IF IsMapping(x)
    THEN PyDict([i \in 1..Len(x.items) |->
                   <<x.items[i][1], to_container(x.items[i][2])>>])
    ELSE x

dataclass_to_dict(data) ==
    IF data.py # "DictConfig"
    THEN to_container(PyDictConfig(data.items))
    ELSE to_container(data)

\* sorted(items, key = item[0]): insertion of one pair into a sorted sequence
RECURSIVE InsertSorted(_, _)
InsertSorted(p, s) ==
    IF s = <<>> THEN <<p>>
    ELSE IF KeyRank(p[1]) < KeyRank(Head(s)[1]) THEN <<p>> \o s
    ELSE <<Head(s)>> \o InsertSorted(p, Tail(s))

\* json.dumps without sort_keys: the items in insertion order
ItemsInInsertionOrder(items) == items

RECURSIVE SortedItems(_)
SortedItems(items) ==
    IF items = <<>> THEN <<>>
    ELSE InsertSorted(Head(items), SortedItems(Tail(items)))

JsonScalar(x) ==
    CASE x.py = "str" -> "\"" \o x.v \o "\""
      [] x.py = "int" -> ToString(x.v)
      [] x.py = "bool" -> (IF x.v THEN "true" ELSE "false")
      [] x.py = "None" -> "null"

RECURSIVE json_dumps(_)
RECURSIVE JsonItems(_)
JsonItems(items) ==
    IF items = <<>> THEN ""
    ELSE "\"" \o Head(items)[1] \o "\": " \o json_dumps(Head(items)[2])
         \o (IF Tail(items) = <<>> THEN "" ELSE ", " \o JsonItems(Tail(items)))

\* json.dumps(x, sort_keys=True) of a value built of dicts and scalars
json_dumps(x) ==
    IF x.py = "dict"
    THEN "{" \o JsonItems(SortedItems(x.items)) \o "}"
    ELSE JsonScalar(x)

\* a key made of the config and the query alone
CacheKeyWithoutOptions(cfg, q, search_kwargs) ==
    json_dumps(PyDict(<< <<"retriever_config", dataclass_to_dict(cfg)>>,
                         <<"query", PyStr(q)>> >>))

\* one cache key of the wrapper (lines 73-82)
CacheKey(cfg, q, search_kwargs) ==
    json_dumps(PyDict(<< <<"retriever_config", dataclass_to_dict(cfg)>>,
                         <<"query", PyStr(q)>>,
                         <<"search_kwargs", search_kwargs>> >>))

(***************************************************************************)
(* The store RETRIEVAL_CACHE (a PersistentCache): a mapping from key to    *)
(* value.                                                                  *)
(***************************************************************************)
\* RETRIEVAL_CACHE.get(k, None)
CacheGet(st, k) == IF k \in DOMAIN st THEN st[k] ELSE PyNone

\* RETRIEVAL_CACHE[k] = v
CacheSet(st, k, v) == [x \in DOMAIN st \cup {k} |-> IF x = k THEN v ELSE st[x]]

\* RETRIEVAL_CACHE.get(k, None) when the store cannot read its backend: the
\* failure is taken for a miss
CacheGetFailed(st, k) == PyNone

\* RETRIEVAL_CACHE[k] = v when the store cannot write its backend: the failure
\* is logged, nothing is stored
CacheSetFailed(st, k, v) == st

(***************************************************************************)
(* The backend.  The primitive search_batch is abstract in LocalRetriever; *)
(* a well-behaved one returns one list of contexts per query, in input     *)
(* order, an empty list when nothing matches (here: while the index is     *)
(* empty, index = 0).                                                      *)
(***************************************************************************)
Queries == {"q1", "q2"}

\* the query preprocessing pipeline (TextProcessPipeline): lower-casing
Preprocess(q) == IF q = "Q1" THEN "q1" ELSE q

Answer(q, ver) ==
    IF ver = 0 THEN PyList(<<>>)
    ELSE PyList(<<RetrievedContext("local", q, [id |-> ver], PyNone, ver)>>)

search_batch(batch, ver) == [i \in 1..Len(batch) |-> Answer(batch[i], ver)]

\* the contexts of all queries of the batch in one flat sequence
RECURSIVE Flatten(_)
Flatten(lists) ==
    IF lists = <<>> THEN <<>> ELSE Head(lists).items \o Flatten(Tail(lists))

(***************************************************************************)
(* State.                                                                  *)
(***************************************************************************)
AllCallers == {"c1", "c2"}

VARIABLES
    procs,      \* the callers of this behaviour
    env,        \* os.environ.get("DISABLE_CACHE"): Absent when unset
    self,       \* the retriever: its cfg and batch_size
    index,      \* version of the backend's contents
    store,      \* RETRIEVAL_CACHE
    pc,         \* where each caller is in wrapper / search
    loc,        \* the locals of each caller's wrapper and search
    out,        \* what each caller's call returned or raised
    gh,         \* history of the running call (what it read, wrote, dispatched)
    hist,       \* the first cached search that returned normally
    ncalls,     \* number of calls started
    nfaults,    \* number of chunks the backend failed or answered badly
    canIn,      \* the inputs drawn for a function (canonicalisation: two triples)
    canOut,     \* what the function gave for them (canonicalisation: the two keys)
    ranker,     \* a ranker, the call of rank / async_rank on it and its result
    lru,        \* a store of bounded size with its eviction order
    maint,      \* the maintenance entrypoint: its runs, the last one's outcome
    prov        \* the writes to the store so far: key and what it was computed from

vars == <<procs, env, self, index, store, pc, loc, out, gh, hist, ncalls, nfaults, canIn, canOut,
          ranker, lru, maint, prov>>

EnvValues == {Absent, PyStr("True"), PyStr("1")}

\* the disable_cache keyword of a call
DisableArgs == {Absent, PyStr("True"), PyBool(TRUE), PyBool(FALSE)}

\* the other keywords of a call
KwargsSet == {PyDict(<<>>), PyDict(<< <<"no_preprocess", PyBool(TRUE)>> >>)}

RECURSIVE SeqsUpTo(_, _)
SeqsUpTo(S, n) ==
    IF n = 0 THEN {<<>>}
    ELSE LET shorter == SeqsUpTo(S, n - 1)
         IN  shorter \cup {Append(s, x) : s \in shorter, x \in S}

QuerySeqs == SeqsUpTo(Queries, MaxQ)

LocalRetrieverConfig(b) ==
    PyDataclass(<< <<"log_interval", PyInt(100)>>,
                   <<"top_k", PyInt(10)>>,
                   <<"batch_size", PyInt(b)>>,
                   <<"query_preprocess_pipeline",
                     PyDataclass(<< <<"processors", PyStr("lower")>> >>)>> >>)

NoLocals ==
    [given |-> Absent, query |-> <<>>, arg |-> Absent, search_kwargs |-> PyDict(<<>>), direct |-> FALSE,
     keys |-> <<>>, results |-> <<>>, new_query |-> <<>>, new_indices |-> <<>>,
     new_results |-> <<>>, k |-> 0, fquery |-> <<>>, idx |-> 0, final_results |-> <<>>]

NoOut == [status |-> "none"]
Returned(v) == [status |-> "ok", value |-> v]
Raised(e) == [status |-> "error", error |-> e]

NoGhost ==
    [store0 |-> <<>>, reads |-> 0, writes |-> {}, invoked |-> FALSE, funcArg |-> <<>>,
     batches |-> <<>>, modes |-> <<>>, readFailed |-> {}, writeFailed |-> {},
     abandoned |-> FALSE, issued |-> 0]

NoHist == [set |-> FALSE]

NoCanon == <<>>

\* no ranker in use
NoRanker == [pc |-> "none"]

\* no bounded store in use
NoLru == [pc |-> "none"]

\* the maintenance entrypoint has not run
NoMaint == [runs |-> 0, action |-> "none", out |-> NoOut, file |-> <<>>,
            before |-> <<>>, calls |-> 0]

Min(a, b) == IF a < b THEN a ELSE b

(***************************************************************************)
(* Helpers of the wrapper and of LocalRetriever.search.                    *)
(***************************************************************************)
\* Python truthiness of a keyword value
Truthy(x) ==
    CASE x.py = "bool" -> x.v
      [] x.py = "str" -> x.v # ""
      [] x.py = "int" -> x.v # 0
      [] OTHER -> FALSE

\* kwargs.get(name, default) on an ordered mapping
RECURSIVE ItemsGet(_, _, _)
ItemsGet(items, name, default) ==
    IF items = <<>> THEN default
    ELSE IF Head(items)[1] = name THEN Head(items)[2]
    ELSE ItemsGet(Tail(items), name, default)

\* the keyword with a fixed default, the environment not consulted
DisableCacheDefaultFalse(arg, e) == IF arg = Absent THEN PyStr("False") ELSE arg

\* search_kwargs.pop("disable_cache", os.environ.get("DISABLE_CACHE", "False"))
DisableCacheValue(arg, e) ==
    IF arg = Absent THEN (IF e = Absent THEN PyStr("False") ELSE e) ELSE arg

\* if disable_cache == "True"
IsDirect(arg, e) == DisableCacheValue(arg, e) = PyStr("True")

\* the positions n (1-based) with results[n] is None, ascending
RECURSIVE MissesFrom(_, _)
MissesFrom(results, n) ==
    IF n > Len(results) THEN <<>>
    ELSE (IF IsNone(results[n]) THEN <<n>> ELSE <<>>) \o MissesFrom(results, n + 1)

\* the positions with a falsy result: None, and also an empty stored list
NewIndicesFalsy(results) ==
    LET RECURSIVE F(_)
        F(n) == IF n > Len(results) THEN <<>>
                ELSE (IF IsNone(results[n]) \/ results[n].items = <<>> THEN <<n>> ELSE <<>>)
                     \o F(n + 1)
    IN  F(1)

\* new_indices = [n for n, r in enumerate(results) if r is None]
NewIndices(results) == MissesFrom(results, 1)

\* all queries handed on, the hits among them
NewQueryAll(query, results) == query

\* new_query = [q for q, r in zip(query, results) if r is None]
NewQuery(query, results) ==
    LET ix == NewIndices(results) IN [j \in 1..Len(ix) |-> query[ix[j]]]

\* a search that preprocesses whatever no_preprocess says
FuncQueryAlways(query, search_kwargs) == [i \in 1..Len(query) |-> Preprocess(query[i])]

\* LocalRetriever.search, lines 235-237: the queries the chunks are cut from
FuncQuery(query, search_kwargs) ==
    IF ~Truthy(ItemsGet(search_kwargs.items, "no_preprocess", PyBool(FALSE)))
    THEN [i \in 1..Len(query) |-> Preprocess(query[i])]
    ELSE query

\* a slice with no upper end: query[idx:]
BatchToEnd(l, b) == SubSeq(l.fquery, l.idx + 1, Len(l.fquery))

\* query[idx : idx + batch_size]
Batch(l, b) == SubSeq(l.fquery, l.idx + 1, Min(l.idx + b, Len(l.fquery)))

\* check(results)
CheckFails(results) ==
    \E i \in 1..Len(results) :
        \/ ~IsList(results[i])
        \/ \E j \in 1..Len(results[i].items) : ~IsRetrievedContext(results[i].items[j])

RemoveAt(s, d) == [i \in 1..(Len(s) - 1) |-> IF i < d THEN s[i] ELSE s[i + 1]]

Idle == \A c \in procs : pc[c] = "idle"

(***************************************************************************)
(* Init.                                                                   *)
(***************************************************************************)
InitCommon ==
    /\ procs = {"c1"}
    /\ index = 0
    /\ store = <<>>
    /\ pc = [c \in AllCallers |-> "idle"]
    /\ loc = [c \in AllCallers |-> NoLocals]
    /\ out = [c \in AllCallers |-> NoOut]
    /\ gh = [c \in AllCallers |-> NoGhost]
    /\ hist = NoHist
    /\ ncalls = 0
    /\ nfaults = 0
    /\ maint = NoMaint
    /\ prov = {}

Init ==
    /\ InitCommon
    /\ env \in EnvValues
    /\ self \in {[cfg |-> LocalRetrieverConfig(b), batch_size |-> b] : b \in 1..MaxBatch}
    /\ canIn = NoCanon
    /\ canOut = NoCanon
    /\ ranker = NoRanker
    /\ lru = NoLru

(***************************************************************************)
(* wrapper, lines 56-83: a call starts.                                    *)
(***************************************************************************)
\* entering func = LocalRetriever.search with the query sequence q
EnterSearch(l, q) ==
    [l EXCEPT !.fquery = FuncQuery(q, l.search_kwargs), !.idx = 0, !.final_results = <<>>]

\* a str taken for the sequence of its characters, as iterating it gives
NormalizedByIteration(given) ==
    IF given.py = "str" THEN [i \in 1..Len(given.v) |-> SubSeq(given.v, i, i)]
    ELSE given.items

\* lines 62-63: if isinstance(query, str): query = [query]
Normalized(given) == IF given.py = "str" THEN <<given.v>> ELSE given.items

\* a key made of the text the backend is searched with
KeyQueryAsSearched(q, search_kwargs) == FuncQuery(<<q>>, search_kwargs)[1]

\* line 77: "query": q, the query as the caller passed it
KeyQuery(q, search_kwargs) == q

\* wrapper called with query = given, a str or a list of str
CallGiven(c, given, arg, kw) ==
    /\ pc[c] = "idle"
    /\ ncalls < MaxCalls
    /\ ncalls' = ncalls + 1
    /\ LET query == Normalized(given)
           l == [NoLocals EXCEPT !.given = given, !.query = query, !.arg = arg,
                                 !.search_kwargs = kw]
       IN  IF IsDirect(arg, env)
           THEN /\ loc' = [loc EXCEPT ![c] = EnterSearch([l EXCEPT !.direct = TRUE], query)]
                /\ gh' = [gh EXCEPT ![c] = [NoGhost EXCEPT !.store0 = store,
                                              !.invoked = TRUE, !.funcArg = query]]
                /\ pc' = [pc EXCEPT ![c] = "search"]
           ELSE /\ loc' = [loc EXCEPT ![c] =
                       [l EXCEPT !.keys = [i \in 1..Len(query) |->
                                             CacheKey(self.cfg, KeyQuery(query[i], kw), kw)]]]
                /\ gh' = [gh EXCEPT ![c] = [NoGhost EXCEPT !.store0 = store]]
                /\ pc' = [pc EXCEPT ![c] = "lookup"]
    /\ UNCHANGED <<procs, env, self, index, store, out, hist, nfaults, canIn, canOut, ranker, lru, maint, prov>>

\* wrapper called with a list of queries
Call(c, query, arg, kw) == CallGiven(c, PyList(query), arg, kw)

\* line 83, one key: results.append(dict_to_retrieved(RETRIEVAL_CACHE.get(k, None)))
Lookup(c) ==
    /\ pc[c] = "lookup"
    /\ Len(loc[c].results) < Len(loc[c].keys)
    /\ LET k == loc[c].keys[Len(loc[c].results) + 1]
       IN  loc' = [loc EXCEPT ![c].results =
                      Append(@, dict_to_retrieved(CacheGet(store, k)))]
    /\ gh' = [gh EXCEPT ![c].reads = @ + 1]
    /\ UNCHANGED <<procs, env, self, index, store, pc, out, hist, ncalls, nfaults, canIn, canOut, ranker, lru, maint, prov>>

\* lines 86-89: the misses are split off and handed to func, if any
Split(c) ==
    /\ pc[c] = "lookup"
    /\ Len(loc[c].results) = Len(loc[c].keys)
    /\ LET l == loc[c]
           nq == NewQuery(l.query, l.results)
           l2 == [l EXCEPT !.new_query = nq, !.new_indices = NewIndices(l.results)]
       IN  IF nq # <<>>
           THEN /\ loc' = [loc EXCEPT ![c] = EnterSearch(l2, nq)]
                /\ gh' = [gh EXCEPT ![c].invoked = TRUE, ![c].funcArg = nq]
                /\ pc' = [pc EXCEPT ![c] = "search"]
           ELSE /\ loc' = [loc EXCEPT ![c] = l2]
                /\ gh' = gh
                /\ pc' = [pc EXCEPT ![c] = "check"]
    /\ UNCHANGED <<procs, env, self, index, store, out, hist, ncalls, nfaults, canIn, canOut, ranker, lru, maint, prov>>

(***************************************************************************)
(* LocalRetriever.search, lines 238-245: one chunk per step.  The backend  *)
(* primitive answers a chunk well (SearchBatchOk), raises, or breaks its   *)
(* contract: a flat sequence of contexts, too few or too many lists.       *)
(***************************************************************************)
InChunk(c) ==
    /\ pc[c] = "search"
    /\ loc[c].idx < Len(loc[c].fquery)

Faulty(c) ==
    /\ InChunk(c)
    /\ nfaults < MaxFaults

\* results_ = self.search_batch(batch); final_results.extend(results_)
Extend(c, results_, mode) ==
    /\ loc' = [loc EXCEPT ![c].final_results = @ \o results_,
                          ![c].idx = @ + self.batch_size]
    /\ gh' = [gh EXCEPT ![c].batches = Append(@, Batch(loc[c], self.batch_size)),
                        ![c].modes = Append(@, mode)]
    /\ nfaults' = IF mode = "ok" THEN nfaults ELSE nfaults + 1
    /\ UNCHANGED <<procs, env, self, index, store, pc, out, hist, ncalls, canIn, canOut, ranker, lru, maint, prov>>

SearchBatchOk(c) ==
    /\ InChunk(c)
    /\ Extend(c, search_batch(Batch(loc[c], self.batch_size), index), "ok")

\* a chunk loop that drops the failed chunk and goes on with the next
RaiseSwallowed(c) ==
    /\ loc' = [loc EXCEPT ![c].idx = @ + self.batch_size]
    /\ gh' = [gh EXCEPT ![c].batches = Append(@, Batch(loc[c], self.batch_size)),
                        ![c].modes = Append(@, "raise")]
    /\ UNCHANGED <<pc, out>>

\* the exception of search_batch leaves search and the wrapper (line 89 or 70)
RaisePropagates(c) ==
    /\ pc' = [pc EXCEPT ![c] = "done"]
    /\ out' = [out EXCEPT ![c] = Raised("BackendError")]
    /\ gh' = [gh EXCEPT ![c].batches = Append(@, Batch(loc[c], self.batch_size)),
                        ![c].modes = Append(@, "raise")]
    /\ loc' = loc

SearchBatchRaise(c) ==
    /\ Faulty(c)
    /\ RaisePropagates(c)
    /\ nfaults' = nfaults + 1
    /\ UNCHANGED <<procs, env, self, index, store, hist, ncalls, canIn, canOut, ranker, lru, maint, prov>>

SearchBatchFlat(c) ==
    /\ Faulty(c)
    /\ LET flat == Flatten(search_batch(Batch(loc[c], self.batch_size), index))
       IN  /\ flat # <<>>
           /\ Extend(c, flat, "flat")

SearchBatchShort(c) ==
    /\ Faulty(c)
    /\ LET good == search_batch(Batch(loc[c], self.batch_size), index)
       IN  \E d \in 1..Len(good) : Extend(c, RemoveAt(good, d), "short")

SearchBatchLong(c) ==
    /\ Faulty(c)
    /\ LET good == search_batch(Batch(loc[c], self.batch_size), index)
       IN  Extend(c, Append(good, PyList(<<>>)), "long")

\* line 245 and, in the wrapper, line 70 (direct) or line 89 (new_results)
SearchReturn(c) ==
    /\ pc[c] = "search"
    /\ loc[c].idx >= Len(loc[c].fquery)
    /\ IF loc[c].direct
       THEN /\ pc' = [pc EXCEPT ![c] = "done"]
            /\ out' = [out EXCEPT ![c] = Returned(loc[c].final_results)]
            /\ loc' = loc
       ELSE /\ loc' = [loc EXCEPT ![c].new_results = loc[c].final_results, ![c].k = 1]
            /\ pc' = [pc EXCEPT ![c] =
                        IF Min(Len(loc[c].new_indices), Len(loc[c].final_results)) = 0
                        THEN "check" ELSE "update"]
            /\ out' = out
    /\ UNCHANGED <<procs, env, self, index, store, gh, hist, ncalls, nfaults, canIn, canOut, ranker, lru, maint, prov>>

(***************************************************************************)
(* wrapper, lines 91-96.                                                   *)
(***************************************************************************)
\* the results written back without a write to the store
WriteBackNothing(st, key, d) == st

\* a write that replaces the whole store by the one entry
WriteBackAlone(st, key, d) == [x \in {key} |-> d]

\* the store after RETRIEVAL_CACHE[keys[n]] = d
WriteBack(st, key, d) == CacheSet(st, key, d)

\* one write of line 93: the key and the config, query and options of the
\* call that computed it (lines 73-82)
Written(key, cfg, q, search_kwargs) ==
    [key |-> key, cfg |-> cfg, query |-> q, search_kwargs |-> search_kwargs]

\* the position the k-th new result is taken to be of: k itself
UpdateTargetByRank(l) == l.k

\* every new result put at the position of the first miss
UpdateTargetFirstMiss(l) == l.new_indices[1]

\* the position n of: for n, r in zip(new_indices, new_results)
UpdateTarget(l) == l.new_indices[l.k]

\* a caller that gives way to an entry written since its lookup
NewResultUnlessStored(st, key, r) ==
    IF key \in DOMAIN st THEN dict_to_retrieved(st[key]) ELSE r

\* the r of: for n, r in zip(new_indices, new_results), the caller's own
\* result whatever the store holds by now
NewResult(st, key, r) == r

\* one turn of: for n, r in zip(new_indices, new_results)
Update(c) ==
    /\ pc[c] = "update"
    /\ LET l == loc[c]
           n == UpdateTarget(l)
           r == NewResult(store, l.keys[n], l.new_results[l.k])
           d == retrieved_to_dict(r)
       IN  /\ loc' = [loc EXCEPT ![c].results[n] = r, ![c].k = @ + 1]
           /\ IF d = TypeError
              THEN /\ pc' = [pc EXCEPT ![c] = "done"]
                   /\ out' = [out EXCEPT ![c] = Raised("TypeError")]
                   /\ UNCHANGED <<store, gh, prov>>
              ELSE /\ store' = WriteBack(store, l.keys[n], d)
                   /\ gh' = [gh EXCEPT ![c].writes = @ \cup {l.keys[n]}]
                   /\ prov' = prov \cup {Written(l.keys[n], self.cfg, l.query[n],
                                                  l.search_kwargs)}
                   /\ pc' = [pc EXCEPT ![c] =
                               IF l.k + 1 > Min(Len(l.new_indices), Len(l.new_results))
                               THEN "check" ELSE "update"]
                   /\ out' = out
    /\ UNCHANGED <<procs, env, self, index, hist, ncalls, nfaults, canIn, canOut, ranker, lru, maint>>

\* check(results); return results
Check(c) ==
    /\ pc[c] = "check"
    /\ pc' = [pc EXCEPT ![c] = "done"]
    /\ out' = [out EXCEPT ![c] =
                 IF CheckFails(loc[c].results) THEN Raised("AssertionError")
                 ELSE Returned(loc[c].results)]
    /\ UNCHANGED <<procs, env, self, index, store, loc, gh, hist, ncalls, nfaults, canIn, canOut, ranker, lru, maint, prov>>

\* the backend honoured its contract in every chunk of the call
WellFormed(g) == \A i \in 1..Len(g.modes) : g.modes[i] = "ok"

\* the caller has its answer; the call's frame is gone
Return(c) ==
    /\ pc[c] = "done"
    /\ pc' = [pc EXCEPT ![c] = "idle"]
    /\ loc' = [loc EXCEPT ![c] = NoLocals]
    /\ out' = [out EXCEPT ![c] = NoOut]
    /\ gh' = [gh EXCEPT ![c] = NoGhost]
    /\ hist' = IF ~hist.set /\ ~loc[c].direct /\ out[c].status = "ok" /\ WellFormed(gh[c])
               THEN [set |-> TRUE, query |-> loc[c].query,
                     search_kwargs |-> loc[c].search_kwargs, value |-> out[c].value]
               ELSE hist
    /\ UNCHANGED <<procs, env, self, index, store, ncalls, nfaults, canIn, canOut, ranker, lru, maint, prov>>

\* a change of the backend's contents that drops the entries of the store
AddPassagesInvalidating ==
    /\ Idle
    /\ index < MaxVer
    /\ index' = index + 1
    /\ store' = <<>>
    /\ UNCHANGED <<procs, env, self, pc, loc, out, gh, hist, ncalls, nfaults, canIn, canOut,
                   ranker, lru, maint, prov>>

\* the backend's contents change (add_passages) between searches
AddPassages ==
    /\ Idle
    /\ index < MaxVer
    /\ index' = index + 1
    /\ UNCHANGED <<procs, env, self, store, pc, loc, out, gh, hist, ncalls, nfaults, canIn, canOut, ranker, lru, maint, prov>>

Next ==
    \/ \E c \in procs, query \in QuerySeqs, arg \in DisableArgs, kw \in KwargsSet :
            Call(c, query, arg, kw)
    \/ \E c \in procs : Lookup(c)
    \/ \E c \in procs : Split(c)
    \/ \E c \in procs : SearchBatchOk(c)
    \/ \E c \in procs : SearchBatchRaise(c)
    \/ \E c \in procs : SearchBatchFlat(c)
    \/ \E c \in procs : SearchBatchShort(c)
    \/ \E c \in procs : SearchBatchLong(c)
    \/ \E c \in procs : SearchReturn(c)
    \/ \E c \in procs : Update(c)
    \/ \E c \in procs : Check(c)
    \/ \E c \in procs : Return(c)
    \/ AddPassages

Spec == Init /\ [][Next]_vars

(***************************************************************************)
(* Canonicalisation as a function of its inputs: two (retriever config,    *)
(* query, search options) triples are drawn, and their keys computed.      *)
(***************************************************************************)
\* the two ways of writing a structured config
Reprs == {"dataclass", "DictConfig"}

Orders(p, q) == {<<p, q>>, <<q, p>>}

CanonPipelines(repr) ==
    {[py |-> repr, items |-> o] :
        o \in Orders(<<"processors", PyStr("lower")>>, <<"batch_size", PyInt(1)>>)}

CanonCfgs ==
    UNION {UNION {{[py |-> repr, items |-> o] :
                      o \in Orders(<<"top_k", PyInt(v)>>,
                                   <<"query_preprocess_pipeline", pl>>)} :
                  pl \in CanonPipelines(repr), v \in 1..2} :
           repr \in Reprs}

CanonKwargs ==
    {PyDict(<<>>), PyDict(<< <<"no_preprocess", PyBool(TRUE)>> >>),
     PyDict(<< <<"top_k", PyInt(1)>> >>)}
    \cup {PyDict(o) : o \in Orders(<<"no_preprocess", PyBool(TRUE)>>, <<"top_k", PyInt(1)>>)}

CanonTriples ==
    {[cfg |-> cf, query |-> q, search_kwargs |-> kw] :
        cf \in CanonCfgs, q \in Queries, kw \in CanonKwargs}

\* what a value is, whatever the order of its keys and the type of its mappings
RECURSIVE Denote(_)
Denote(x) ==
    IF IsMapping(x)
    THEN [k \in {x.items[i][1] : i \in 1..Len(x.items)} |->
            Denote(ItemsGet(x.items, k, PyNone))]
    ELSE x

DenoteTriple(t) ==
    [cfg |-> Denote(t.cfg), query |-> t.query, search_kwargs |-> Denote(t.search_kwargs)]

InitCanon ==
    /\ InitCommon
    /\ env = Absent
    /\ self = [cfg |-> LocalRetrieverConfig(1), batch_size |-> 1]
    /\ canIn \in CanonTriples \X CanonTriples
    /\ canOut = NoCanon
    /\ ranker = NoRanker
    /\ lru = NoLru

Canonicalize ==
    /\ canOut = NoCanon
    /\ canOut' = [i \in 1..2 |->
                    CacheKey(canIn[i].cfg, canIn[i].query, canIn[i].search_kwargs)]
    /\ UNCHANGED <<procs, env, self, index, store, pc, loc, out, gh, hist, ncalls,
                   nfaults, canIn, ranker, lru, maint, prov>>

NextCanon == Canonicalize

SpecCanon == InitCanon /\ [][NextCanon]_vars

(***************************************************************************)
(* The way of a result list through the store: line 93 writes its dict     *)
(* form under a key, line 83 of a later search reads it and rebuilds the   *)
(* contexts.  A key and a result list are drawn; the list is stored, then  *)
(* loaded.                                                                 *)
(***************************************************************************)
\* longest result list
MaxCtx == 2

\* RetrievedContext.source: None by default
CtxSources == {PyNone, PyStr("wiki")}

\* RetrievedContext.score, in tenths: 0.0 by default
CtxScores == {0, 7}

\* RetrievedContext.data
CtxData == {[id |-> 1], [id |-> 2, text |-> "A"]}

Contexts ==
    {RetrievedContext("local", q, d, src, sc) :
        q \in Queries, d \in CtxData, src \in CtxSources, sc \in CtxScores}

ContextLists == {PyList(l) : l \in SeqsUpTo(Contexts, MaxCtx)}

InitRound ==
    /\ InitCommon
    /\ env = Absent
    /\ self = [cfg |-> LocalRetrieverConfig(1), batch_size |-> 1]
    /\ canIn \in {<<CacheKey(self.cfg, q, PyDict(<<>>)), r>> : q \in Queries, r \in ContextLists}
    /\ canOut = NoCanon
    /\ ranker = NoRanker
    /\ lru = NoLru

\* line 93: RETRIEVAL_CACHE[key] = retrieved_to_dict(r)
StoreResult ==
    /\ canIn[1] \notin DOMAIN store
    /\ store' = WriteBack(store, canIn[1], retrieved_to_dict(canIn[2]))
    /\ UNCHANGED <<procs, env, self, index, pc, loc, out, gh, hist, ncalls, nfaults,
                   canIn, canOut, ranker, lru, maint, prov>>

\* line 83: dict_to_retrieved(RETRIEVAL_CACHE.get(key, None))
LoadResult ==
    /\ canOut = NoCanon
    /\ canIn[1] \in DOMAIN store
    /\ canOut' = <<dict_to_retrieved(CacheGet(store, canIn[1]))>>
    /\ UNCHANGED <<procs, env, self, index, store, pc, loc, out, gh, hist, ncalls,
                   nfaults, canIn, ranker, lru, maint, prov>>

NextRound ==
    \/ StoreResult
    \/ LoadResult

SpecRound == InitRound /\ [][NextRound]_vars

(***************************************************************************)
(* LocalRetriever.search on its own: every call goes straight to the       *)
(* wrapped search (disable_cache="True"), over longer query sequences and  *)
(* with a query the preprocessing pipeline changes.                        *)
(***************************************************************************)
\* longest query sequence of a direct search
MaxChunkQ == 3

ChunkQueries == {"Q1", "q2"}

ChunkQuerySeqs == SeqsUpTo(ChunkQueries, MaxChunkQ)

NextSearch ==
    \/ \E c \in procs, query \in ChunkQuerySeqs, kw \in KwargsSet :
            Call(c, query, PyStr("True"), kw)
    \/ \E c \in procs : SearchBatchOk(c)
    \/ \E c \in procs : SearchBatchRaise(c)
    \/ \E c \in procs : SearchReturn(c)
    \/ \E c \in procs : Return(c)
    \/ AddPassages

SpecSearch == Init /\ [][NextSearch]_vars

(***************************************************************************)
(* Searches called with one query string or with a list of queries, cached *)
(* or direct.                                                              *)
(***************************************************************************)
\* what a caller may give as query: a str, or a list of up to MaxQ str
GivenQueries ==
    {PyStr(q) : q \in ChunkQueries} \cup {PyList(qs) : qs \in SeqsUpTo(ChunkQueries, MaxQ)}

\* the keywords of these calls: no_preprocess not given, True, or False
GivenKwargs == KwargsSet \cup {PyDict(<< <<"no_preprocess", PyBool(FALSE)>> >>)}

NextGiven ==
    \/ \E c \in procs, given \in GivenQueries, arg \in {Absent, PyStr("True")}, kw \in GivenKwargs :
            CallGiven(c, given, arg, kw)
    \/ \E c \in procs : Lookup(c)
    \/ \E c \in procs : Split(c)
    \/ \E c \in procs : SearchBatchOk(c)
    \/ \E c \in procs : SearchReturn(c)
    \/ \E c \in procs : Update(c)
    \/ \E c \in procs : Check(c)
    \/ \E c \in procs : Return(c)
    \/ AddPassages

SpecGiven == Init /\ [][NextGiven]_vars

(***************************************************************************)
(* The keywords of a call as the caller wrote them, disable_cache among    *)
(* them or not; line 66 pops it from search_kwargs.                        *)
(***************************************************************************)
\* the values given for disable_cache
OptValues == {PyStr("True"), PyStr("False"), PyBool(FALSE)}

\* the keywords of a call: disable_cache and no_preprocess, each given or
\* not, in either order
OptKwargs ==
    {PyDict(<<>>), PyDict(<< <<"no_preprocess", PyBool(TRUE)>> >>)}
    \cup {PyDict(<< <<"disable_cache", v>> >>) : v \in OptValues}
    \cup UNION {{PyDict(o) : o \in Orders(<<"disable_cache", v>>,
                                           <<"no_preprocess", PyBool(TRUE)>>)} :
                v \in OptValues}

\* search_kwargs after a get that leaves the keyword in
PoppedKept(kwargs, name) == kwargs

\* search_kwargs after search_kwargs.pop(name, ...)
Popped(kwargs, name) == PyDict(SelectSeq(kwargs.items, LAMBDA p : p[1] # name))

\* wrapper called with the keywords kwargs (line 66)
CallKw(c, given, kwargs) ==
    CallGiven(c, given, ItemsGet(kwargs.items, "disable_cache", Absent),
              Popped(kwargs, "disable_cache"))

NextOpt ==
    \/ \E c \in procs, query \in QuerySeqs, kwargs \in OptKwargs :
            CallKw(c, PyList(query), kwargs)
    \/ \E c \in procs : Lookup(c)
    \/ \E c \in procs : Split(c)
    \/ \E c \in procs : SearchBatchOk(c)
    \/ \E c \in procs : SearchReturn(c)
    \/ \E c \in procs : Update(c)
    \/ \E c \in procs : Check(c)
    \/ \E c \in procs : Return(c)
    \/ AddPassages

SpecOpt == Init /\ [][NextOpt]_vars

(***************************************************************************)
(* Searches for queries that differ as the caller writes them and are the  *)
(* same text once preprocessed.                                            *)
(***************************************************************************)
\* Preprocess("Q1") = "q1" = Preprocess("q1")
RawQueries == {"Q1", "q1"}

NextRaw ==
    \/ \E c \in procs, query \in SeqsUpTo(RawQueries, MaxQ), kw \in GivenKwargs :
            Call(c, query, Absent, kw)
    \/ \E c \in procs : Lookup(c)
    \/ \E c \in procs : Split(c)
    \/ \E c \in procs : SearchBatchOk(c)
    \/ \E c \in procs : SearchReturn(c)
    \/ \E c \in procs : Update(c)
    \/ \E c \in procs : Check(c)
    \/ \E c \in procs : Return(c)
    \/ AddPassages

SpecRaw == Init /\ [][NextRaw]_vars

(***************************************************************************)
(* ElasticRetriever (flexrag/retriever/elastic_retriever.py): a            *)
(* LocalRetriever whose search_batch sends the chunk to the server in one  *)
(* msearch request and forms the results from the responses.  The server   *)
(* of a behaviour is drawn: whether it answers at all, and its response    *)
(* to each query; it may change between searches.  The fields of           *)
(* ElasticRetrieverConfig beyond those of LocalRetrieverConfig take no     *)
(* part in the search and are left out of the config.                      *)
(***************************************************************************)
\* ElasticRetriever.name
ElasticName == "ElasticSearch"

\* cfg.index_name
IndexName == "wiki"

\* r["hits"]["hits"] of a response: documents with their scores (in tenths)
ElasticHits == {<<>>, <<[_source |-> [id |-> 1], _score |-> 7]>>}

\* one response of msearch: found (200) or failed
ElasticResponses ==
    {[status |-> 200, hits |-> h] : h \in ElasticHits} \cup {[status |-> 500]}

\* a server: whether responses are received, and the response to each query
ElasticServers ==
    {[received |-> TRUE, by |-> f] : f \in [Queries -> ElasticResponses]}
    \cup {[received |-> FALSE, by |-> [q \in Queries |-> [status |-> 500]]]}

\* line 163: self.client.msearch(body=body, ...)["responses"], one response
\* per query of the chunk, or None
msearch(query, server) ==
    IF server.received THEN PyList([i \in 1..Len(query) |-> server.by[query[i]]])
    ELSE PyNone

\* a failed response taken for a query that found nothing
FormOneEmpty(r, q) ==
    IF r.status # 200 THEN PyList(<<>>)
    ELSE PyList([j \in 1..Len(r.hits) |->
                   RetrievedContext(ElasticName, q, r.hits[j]._source,
                                    PyStr(IndexName), r.hits[j]._score)])

\* lines 185-210: the result list of one response r to the query q
FormOne(r, q) ==
    IF r.status # 200
    THEN PyList(<<RetrievedContext(ElasticName, q, <<>>, PyStr(IndexName), 0)>>)
    ELSE PyList([j \in 1..Len(r.hits) |->
                   RetrievedContext(ElasticName, q, r.hits[j]._source,
                                    PyStr(IndexName), r.hits[j]._score)])

\* ElasticRetriever._form_results, lines 178-211
form_results(query, responses) ==
    LET rs == IF IsNone(responses) THEN [i \in 1..Len(query) |-> [status |-> 500]]
              ELSE responses.items
    IN  [i \in 1..Min(Len(rs), Len(query)) |-> FormOne(rs[i], query[i])]

\* ElasticRetriever.search_batch with the default search_method, lines 131-164
SearchBatchElastic(c) ==
    /\ InChunk(c)
    /\ LET batch == Batch(loc[c], self.batch_size)
       IN  Extend(c, form_results(batch, msearch(batch, canIn)), "ok")

\* the server goes down, comes back or answers otherwise, between searches
ServerChanges ==
    /\ Idle
    /\ canIn' \in ElasticServers \ {canIn}
    /\ UNCHANGED <<procs, env, self, index, store, pc, loc, out, gh, hist, ncalls, nfaults,
                   canOut, ranker, lru, maint, prov>>

InitElastic ==
    /\ InitCommon
    /\ env = Absent
    /\ self \in {[cfg |-> LocalRetrieverConfig(b), batch_size |-> b] : b \in 1..MaxBatch}
    /\ canIn \in ElasticServers
    /\ canOut = NoCanon
    /\ ranker = NoRanker
    /\ lru = NoLru

NextElastic ==
    \/ \E c \in procs, query \in QuerySeqs : Call(c, query, Absent, PyDict(<<>>))
    \/ \E c \in procs : Lookup(c)
    \/ \E c \in procs : Split(c)
    \/ \E c \in procs : SearchBatchElastic(c)
    \/ \E c \in procs : SearchReturn(c)
    \/ \E c \in procs : Update(c)
    \/ \E c \in procs : Check(c)
    \/ \E c \in procs : Return(c)
    \/ ServerChanges

SpecElastic == InitElastic /\ [][NextElastic]_vars

(***************************************************************************)
(* The chunk loop of LocalRetriever.search with the call of search_batch   *)
(* in two steps: the call is issued, then it returns (or raises).  The     *)
(* history counts the calls issued; the calls that have ended are those in *)
(* gh.batches.                                                             *)
(***************************************************************************)
\* the chunks of c's search issued and not yet ended
InFlight(c) == gh[c].issued - Len(gh[c].batches)

\* a loop that issues the next call without waiting for the one before
MayIssueAhead(issued, ended) == TRUE

\* line 243 is a plain call: the loop is at it until it has returned, so a
\* call is issued only when every earlier one has ended
MayIssue(issued, ended) == issued = ended

\* line 243, the call made: self.search_batch(batch, **search_kwargs)
Dispatch(c) ==
    /\ InChunk(c)
    /\ gh[c].issued * self.batch_size < Len(loc[c].fquery)
    /\ MayIssue(gh[c].issued, Len(gh[c].batches))
    /\ gh' = [gh EXCEPT ![c].issued = @ + 1]
    /\ UNCHANGED <<procs, env, self, index, store, pc, loc, out, hist, ncalls, nfaults,
                   canIn, canOut, ranker, lru, maint, prov>>

NextSeq ==
    \/ \E c \in procs, query \in ChunkQuerySeqs, arg \in {Absent, PyStr("True")} :
            Call(c, query, arg, PyDict(<<>>))
    \/ \E c \in procs : Lookup(c)
    \/ \E c \in procs : Split(c)
    \/ \E c \in procs : Dispatch(c)
    \/ \E c \in procs : InFlight(c) > 0 /\ SearchBatchOk(c)
    \/ \E c \in procs : InFlight(c) > 0 /\ SearchBatchRaise(c)
    \/ \E c \in procs : SearchReturn(c)
    \/ \E c \in procs : Update(c)
    \/ \E c \in procs : Check(c)
    \/ \E c \in procs : Return(c)
    \/ AddPassages

SpecSeq == Init /\ [][NextSeq]_vars

(***************************************************************************)
(* Cached searches on a store whose backend may fail on a read or a write, *)
(* and whose caller may give up waiting (async_search awaits the search on *)
(* a worker thread; cancelling the await leaves the worker running).       *)
(***************************************************************************)
\* line 83 for one key, the store failing on the read
LookupFails(c) ==
    /\ pc[c] = "lookup"
    /\ Len(loc[c].results) < Len(loc[c].keys)
    /\ nfaults < MaxFaults
    /\ LET k == loc[c].keys[Len(loc[c].results) + 1]
       IN  loc' = [loc EXCEPT ![c].results =
                      Append(@, dict_to_retrieved(CacheGetFailed(store, k)))]
    /\ gh' = [gh EXCEPT ![c].reads = @ + 1,
                        ![c].readFailed = @ \cup {Len(loc[c].results) + 1}]
    /\ nfaults' = nfaults + 1
    /\ UNCHANGED <<procs, env, self, index, store, pc, out, hist, ncalls, canIn, canOut,
                   ranker, lru, maint, prov>>

\* one turn of the loop of lines 91-93, the store failing on the write
UpdateSetFails(c) ==
    /\ pc[c] = "update"
    /\ nfaults < MaxFaults
    /\ LET l == loc[c]
           n == UpdateTarget(l)
           r == l.new_results[l.k]
           d == retrieved_to_dict(r)
       IN  /\ d # TypeError
           /\ loc' = [loc EXCEPT ![c].results[n] = r, ![c].k = @ + 1]
           /\ store' = CacheSetFailed(store, l.keys[n], d)
           /\ gh' = [gh EXCEPT ![c].writeFailed = @ \cup {l.keys[n]}]
           /\ pc' = [pc EXCEPT ![c] =
                       IF l.k + 1 > Min(Len(l.new_indices), Len(l.new_results))
                       THEN "check" ELSE "update"]
    /\ nfaults' = nfaults + 1
    /\ UNCHANGED <<procs, env, self, index, out, hist, ncalls, canIn, canOut, ranker, lru, maint, prov>>

\* the caller of async_search stops waiting between two chunks; the worker
\* thread that runs search is not interrupted
Abandon(c) ==
    /\ InChunk(c)
    /\ gh[c].batches # <<>>
    /\ ~gh[c].abandoned
    /\ gh' = [gh EXCEPT ![c].abandoned = TRUE]
    /\ UNCHANGED <<procs, env, self, index, store, pc, loc, out, hist, ncalls, nfaults,
                   canIn, canOut, ranker, lru, maint, prov>>

InitFail ==
    /\ InitCommon
    /\ env = Absent
    /\ self \in {[cfg |-> LocalRetrieverConfig(b), batch_size |-> b] : b \in 1..MaxBatch}
    /\ canIn = NoCanon
    /\ canOut = NoCanon
    /\ ranker = NoRanker
    /\ lru = NoLru

NextFail ==
    \/ \E c \in procs, query \in QuerySeqs : Call(c, query, Absent, PyDict(<<>>))
    \/ \E c \in procs : Lookup(c)
    \/ \E c \in procs : LookupFails(c)
    \/ \E c \in procs : Split(c)
    \/ \E c \in procs : SearchBatchOk(c)
    \/ \E c \in procs : SearchBatchRaise(c)
    \/ \E c \in procs : Abandon(c)
    \/ \E c \in procs : SearchReturn(c)
    \/ \E c \in procs : Update(c)
    \/ \E c \in procs : UpdateSetFails(c)
    \/ \E c \in procs : Check(c)
    \/ \E c \in procs : Return(c)
    \/ AddPassages

SpecFail == InitFail /\ [][NextFail]_vars

(***************************************************************************)
(* Two callers of async_search on one retriever and one store: each runs   *)
(* the synchronous search on a worker thread of its own, the steps of the  *)
(* two interleave.  Passages may be added while searches run.              *)
(***************************************************************************)
\* add_passages called while searches are in flight
AddPassagesAnytime ==
    /\ index < MaxVer
    /\ index' = index + 1
    /\ UNCHANGED <<procs, env, self, store, pc, loc, out, gh, hist, ncalls, nfaults,
                   canIn, canOut, ranker, lru, maint, prov>>

InitConc ==
    /\ procs = AllCallers
    /\ index = 0
    /\ store = <<>>
    /\ pc = [c \in AllCallers |-> "idle"]
    /\ loc = [c \in AllCallers |-> NoLocals]
    /\ out = [c \in AllCallers |-> NoOut]
    /\ gh = [c \in AllCallers |-> NoGhost]
    /\ hist = NoHist
    /\ ncalls = 0
    /\ nfaults = 0
    /\ maint = NoMaint
    /\ prov = {}
    /\ env = Absent
    /\ self \in {[cfg |-> LocalRetrieverConfig(b), batch_size |-> b] : b \in 1..MaxBatch}
    /\ canIn = NoCanon
    /\ canOut = NoCanon
    /\ ranker = NoRanker
    /\ lru = NoLru

NextConc ==
    \/ \E c \in procs, query \in QuerySeqs : Call(c, query, Absent, PyDict(<<>>))
    \/ \E c \in procs : Lookup(c)
    \/ \E c \in procs : Split(c)
    \/ \E c \in procs : SearchBatchOk(c)
    \/ \E c \in procs : SearchReturn(c)
    \/ \E c \in procs : Update(c)
    \/ \E c \in procs : Check(c)
    \/ \E c \in procs : Return(c)
    \/ AddPassagesAnytime

SpecConc == InitConc /\ [][NextConc]_vars

(***************************************************************************)
(* RETRIEVAL_CACHE as a store of bounded size: a PersistentCache made with *)
(* maxsize and evict_order "LRU" (lines 18-32).  The store is driven by    *)
(* gets and sets of single keys.                                           *)
(***************************************************************************)
\* maxsize of the store of the model (RETRIEVAL_CACHE is made with 10000000)
LruMaxSize == 2

\* number of gets and sets in one behaviour
MaxLruOps == 4

LruKeys == 1..(LruMaxSize + 1)

\* a store configured to evict in insertion order
EvictOrderFIFO == "FIFO"

\* evict_order of RETRIEVAL_CACHE
EvictOrder == "LRU"

\* the eviction order after an access to the stored key k: under LRU the key
\* becomes the last to be evicted
Touched(order, k) ==
    IF EvictOrder = "LRU"
    THEN Append(SelectSeq(order, LAMBDA x : x # k), k)
    ELSE order

\* the store after the evictions an insert makes necessary: the first keys of
\* the eviction order go until maxsize keys are left
RECURSIVE Evicted(_)
Evicted(l) ==
    IF Len(l.order) <= LruMaxSize THEN l
    ELSE Evicted([l EXCEPT !.order = Tail(@),
                           !.data = [k \in DOMAIN @ \ {Head(l.order)} |-> @[k]],
                           !.atime = [k \in DOMAIN @ \ {Head(l.order)} |-> @[k]]])

\* what the last operation was and the access times it found
LastOp(op, k) == [op |-> op, key |-> k, atime |-> lru.atime]

\* PersistentCache.get(k, None)
LruGet(k) ==
    /\ lru.pc = "open"
    /\ lru.clock < MaxLruOps
    /\ lru' = IF k \in DOMAIN lru.data
              THEN [lru EXCEPT !.order = Touched(@, k),
                               !.clock = @ + 1,
                               !.atime = [@ EXCEPT ![k] = lru.clock + 1],
                               !.last = LastOp("get", k)]
              ELSE [lru EXCEPT !.clock = @ + 1, !.last = LastOp("get", k)]
    /\ UNCHANGED <<procs, env, self, index, store, pc, loc, out, gh, hist, ncalls, nfaults,
                   canIn, canOut, ranker, maint, prov>>

\* PersistentCache.__setitem__(k, v), with the eviction it brings
LruSet(k) ==
    /\ lru.pc = "open"
    /\ lru.clock < MaxLruOps
    /\ lru' = Evicted([lru EXCEPT
                  !.data = [x \in DOMAIN @ \cup {k} |-> IF x = k THEN lru.clock + 1 ELSE @[x]],
                  !.order = IF k \in DOMAIN lru.data THEN Touched(@, k) ELSE Append(@, k),
                  !.clock = @ + 1,
                  !.atime = [x \in DOMAIN @ \cup {k} |-> IF x = k THEN lru.clock + 1 ELSE @[x]],
                  !.last = LastOp("set", k)])
    /\ UNCHANGED <<procs, env, self, index, store, pc, loc, out, gh, hist, ncalls, nfaults,
                   canIn, canOut, ranker, maint, prov>>

InitLru ==
    /\ InitCommon
    /\ env = Absent
    /\ self = [cfg |-> LocalRetrieverConfig(1), batch_size |-> 1]
    /\ canIn = NoCanon
    /\ canOut = NoCanon
    /\ ranker = NoRanker
    /\ lru = [pc |-> "open", data |-> <<>>, order |-> <<>>, clock |-> 0, atime |-> <<>>,
              last |-> [op |-> "none", key |-> 0, atime |-> <<>>]]

NextLru ==
    \/ \E k \in LruKeys : LruGet(k)
    \/ \E k \in LruKeys : LruSet(k)

SpecLru == InitLru /\ [][NextLru]_vars

(***************************************************************************)
(* RankerBase.rank and async_rank (ranker.py).  The scoring primitive      *)
(* _rank is abstract: it returns an explicit order (0-based indices), or   *)
(* scores (one per candidate, by position), or both.                       *)
(***************************************************************************)
\* most candidates handed to one rank call
MaxCand == 3

CandidateNames == <<"A", "B", "C", "D">>

\* relevance scores, in tenths (5 is 0.5, 9 is 0.9)
ScoreValues == {5, 9}

\* RankerConfig.reserve_num (-1 by default)
ReserveNums == {-1, 0, 1, 2}

\* RankerConfig.ranking_field
RankingFields == {PyNone, PyStr("text")}

RankingResult(query, candidates, scores) ==
    [py |-> "RankingResult", query |-> query, candidates |-> candidates, scores |-> scores]

\* n candidates, plain strings or retrieved contexts
Candidates(n, kind) ==
    [i \in 1..n |->
        IF kind = "str" THEN PyStr(CandidateNames[i])
        ELSE RetrievedContext("local", "q1", [text |-> CandidateNames[i]], PyNone, 0)]

\* a test of the first candidate that lets an empty list through as no texts
TextsOfAny(candidates, ranking_field) ==
    IF candidates = <<>> THEN Returned(<<>>)
    ELSE IF IsRetrievedContext(candidates[1])
    THEN IF IsNone(ranking_field) THEN Raised("AssertionError")
         ELSE Returned([i \in 1..Len(candidates) |-> candidates[i].data[ranking_field.v]])
    ELSE Returned([i \in 1..Len(candidates) |-> candidates[i].v])

\* lines 36-40: the texts handed to the scoring primitive, or the error raised
Texts(candidates, ranking_field) ==
    IF candidates = <<>> THEN Raised("IndexError")
    ELSE IF IsRetrievedContext(candidates[1])
    THEN IF IsNone(ranking_field) THEN Raised("AssertionError")
         ELSE Returned([i \in 1..Len(candidates) |-> candidates[i].data[ranking_field.v]])
    ELSE Returned([i \in 1..Len(candidates) |-> candidates[i].v])

\* the sequences over 0..n-1 without repetition, of length m
Arrangements(n, m) ==
    {p \in [1..m -> 0..(n - 1)] : \A a, b \in 1..m : a # b => p[a] # p[b]}

\* what _rank may give as indices for n texts: None, or an order of some of them
BackendIndices(n) == {PyNone} \cup {PyList(p) : p \in UNION {Arrangements(n, m) : m \in 1..n}}

\* what _rank may give as scores for n texts: None, or one score per text
BackendScores(n) == {PyNone} \cup {PyList(sc) : sc \in [1..n -> ScoreValues]}

\* np.argsort(scores): the indices in an order of ascending score; the default
\* sort kind is not stable, the order among equal scores is the build's
Argsorts(scores) ==
    {p \in Arrangements(Len(scores), Len(scores)) :
        \A a \in 1..(Len(scores) - 1) : scores[p[a] + 1] <= scores[p[a + 1] + 1]}

\* a[::-1]
Reversed(a) == [i \in 1..Len(a) |-> a[Len(a) + 1 - i]]

\* a[:r]
SliceTo(a, r) ==
    IF r >= 0 THEN SubSeq(a, 1, Min(r, Len(a)))
    ELSE SubSeq(a, 1, Len(a) + r)

\* the slice taken whatever the sign of reserve_num
ReserveUnguarded(indices, reserve_num) == SliceTo(indices, reserve_num)

\* lines 45-46: if self.reserve_num > 0: indices = indices[: self.reserve_num]
Reserve(indices, reserve_num) ==
    IF reserve_num > 0 THEN SliceTo(indices, reserve_num) ELSE indices

\* the scores left in the backend's order, cut to the length of indices
ResultScoresInPlace(scores, indices) == [i \in 1..Len(indices) |-> scores[i]]

\* line 52: [scores[idx] for idx in indices]
ResultScores(scores, indices) == [i \in 1..Len(indices) |-> scores[indices[i] + 1]]

\* a result that carries the texts handed to the primitive in place of the
\* candidates
AssembleTexts(query, candidates, indices, scores) ==
    RankingResult(query,
                  [i \in 1..Len(indices) |->
                      LET cand == candidates[indices[i] + 1]
                      IN  IF IsRetrievedContext(cand) THEN PyStr(cand.data.text) ELSE cand],
                  IF IsNone(scores) THEN PyNone
                  ELSE PyList(ResultScores(scores.items, indices)))

\* lines 48-53: the result assembled from the (cut) indices
Assemble(query, candidates, indices, scores) ==
    RankingResult(query,
                  [i \in 1..Len(indices) |-> candidates[indices[i] + 1]],
                  IF IsNone(scores) THEN PyNone
                  ELSE PyList(ResultScores(scores.items, indices)))

NoBackend == [indices |-> PyNone, scores |-> PyNone]

\* a result put in the order of the scores whenever scores are returned, the
\* order the primitive supplied notwithstanding
FinishResorted(r, indices, scores, order) ==
    LET by == IF IsNone(scores) THEN order
              ELSE Reversed(CHOOSE p \in Argsorts(scores.items) : TRUE)
    IN  [r EXCEPT !.pc = "done",
                  !.backend = [indices |-> indices, scores |-> scores],
                  !.order = by,
                  !.out = Returned(Assemble(r.query, r.candidates,
                                            Reserve(by, r.reserve_num), scores))]

\* lines 41-53 (rank) and 63-75 (async_rank): from the primitive's return to
\* the result; order is the derived or supplied order before it is cut
Finish(r, indices, scores, order) ==
    [r EXCEPT !.pc = "done",
              !.backend = [indices |-> indices, scores |-> scores],
              !.order = order,
              !.out = Returned(Assemble(r.query, r.candidates,
                                        Reserve(order, r.reserve_num), scores))]

\* the step from the primitive's return, whichever method awaits it
AfterPrimitive(r) ==
    \E indices \in BackendIndices(Len(r.candidates)),
       scores \in BackendScores(Len(r.candidates)) :
        IF ~IsNone(indices)
        THEN ranker' = Finish(r, indices, scores, indices.items)
        ELSE IF IsNone(scores)
        THEN ranker' = [r EXCEPT !.pc = "done",
                                 !.backend = [indices |-> indices, scores |-> scores],
                                 !.out = Raised("AssertionError")]
        ELSE \E p \in Argsorts(scores.items) :
                ranker' = Finish(r, indices, scores, Reversed(p))

\* line 41: self._rank(query, texts) is entered
SyncPrimitive(r) == [r EXCEPT !.nrank = @ + 1]

\* a fallback that scores twice
AsyncPrimitiveTwice(r) == IF r.native THEN r ELSE [r EXCEPT !.nrank = @ + 2]

\* line 63: self._async_rank(query, texts) is entered; a ranker without an
\* asynchronous scoring path of its own has the one of lines 90-95, which
\* calls self._rank
AsyncPrimitive(r) == IF r.native THEN r ELSE [r EXCEPT !.nrank = @ + 1]

RankerUnchanged ==
    UNCHANGED <<procs, env, self, index, store, pc, loc, out, gh, hist, ncalls, nfaults,
                canIn, canOut, lru, maint, prov>>

\* RankerBase.rank
Rank ==
    /\ ranker.pc = "start"
    /\ ranker.method = "rank"
    /\ LET t == Texts(ranker.candidates, ranker.ranking_field)
       IN  IF t.status = "error"
           THEN ranker' = [ranker EXCEPT !.pc = "done", !.out = t]
           ELSE AfterPrimitive(SyncPrimitive(ranker))
    /\ RankerUnchanged

\* RankerBase.async_rank up to: await self._async_rank(query, texts)
AsyncRank ==
    /\ ranker.pc = "start"
    /\ ranker.method = "async_rank"
    /\ LET t == Texts(ranker.candidates, ranker.ranking_field)
       IN  IF t.status = "error"
           THEN ranker' = [ranker EXCEPT !.pc = "done", !.out = t]
           ELSE ranker' = [ranker EXCEPT !.pc = "await"]
    /\ RankerUnchanged

\* RankerBase.async_rank resumed with the primitive's return
AsyncRankResume ==
    /\ ranker.pc = "await"
    /\ AfterPrimitive(AsyncPrimitive(ranker))
    /\ RankerUnchanged

\* no earlier call on the ranker
NoFirst == [set |-> FALSE]

InitRank ==
    /\ InitCommon
    /\ env = Absent
    /\ self = [cfg |-> LocalRetrieverConfig(1), batch_size |-> 1]
    /\ canIn = NoCanon
    /\ canOut = NoCanon
    /\ lru = NoLru
    /\ ranker \in {[pc |-> "start", method |-> me, reserve_num |-> r, ranking_field |-> f,
                     query |-> "q1", candidates |-> Candidates(n, kind),
                     backend |-> NoBackend, order |-> <<>>, out |-> NoOut,
                     native |-> nv, nrank |-> 0, first |-> NoFirst] :
                        me \in {"rank", "async_rank"}, r \in ReserveNums,
                        f \in RankingFields, n \in 0..MaxCand, kind \in {"str", "ctx"},
                        nv \in BOOLEAN}

NextRank ==
    \/ Rank
    \/ AsyncRank
    \/ AsyncRankResume

SpecRank == InitRank /\ [][NextRank]_vars

(***************************************************************************)
(* rank and async_rank called one after the other on one ranker, with the  *)
(* same query and candidates.  The scoring backend and numpy's sort are    *)
(* functions of their input: in the second call the primitive returns what *)
(* it returned in the first, and equal scores are ordered as in the first. *)
(***************************************************************************)
\* the method not yet called
OtherMethod(me) == IF me = "rank" THEN "async_rank" ELSE "rank"

\* the caller, having its first result, calls the other method
RankAgain ==
    /\ ranker.pc = "done"
    /\ ~ranker.first.set
    /\ ranker' = [ranker EXCEPT
                     !.pc = "start",
                     !.method = OtherMethod(@),
                     !.first = [set |-> TRUE, out |-> ranker.out,
                                backend |-> ranker.backend, order |-> ranker.order],
                     !.backend = NoBackend,
                     !.order = <<>>,
                     !.out = NoOut,
                     !.nrank = 0]
    /\ RankerUnchanged

\* the primitive and the sort answer the second call as they did the first
SameAsFirst ==
    (ranker.first.set /\ ranker'.pc = "done") =>
        /\ ranker'.backend = ranker.first.backend
        /\ ranker'.order = ranker.first.order

NextPair ==
    \/ Rank /\ SameAsFirst
    \/ AsyncRank
    \/ AsyncRankResume /\ SameAsFirst
    \/ RankAgain

SpecPair == InitRank /\ [][NextPair]_vars

(***************************************************************************)
(* Construction of a retriever (RetrieverBase.__init__ and                 *)
(* LocalRetriever.__init__, lines 131-136 and 195-202), followed by        *)
(* searches on it.  The config handed to the constructor may hold a value  *)
(* OmegaConf cannot put into a DictConfig (a runtime object).              *)
(***************************************************************************)
\* a runtime object: no primitive, no mapping
PyObject == [py |-> "object"]

\* OmegaConf.to_container(DictConfig(data)) and json.dumps go through for x:
\* every value in it, at every level, is a mapping or a primitive
RECURSIVE Canonicalizable(_)
Canonicalizable(x) ==
    IF IsMapping(x)
    THEN \A i \in 1..Len(x.items) : Canonicalizable(x.items[i][2])
    ELSE x.py \in {"str", "int", "bool", "None"}

\* a LocalRetrieverConfig with the given top_k
LocalRetrieverConfigTopK(b, top_k) ==
    PyDataclass(<< <<"log_interval", PyInt(100)>>,
                   <<"top_k", top_k>>,
                   <<"batch_size", PyInt(b)>>,
                   <<"query_preprocess_pipeline",
                     PyDataclass(<< <<"processors", PyStr("lower")>> >>)>> >>)

CtorCfgs == {LocalRetrieverConfigTopK(b, t) : b \in 1..MaxBatch, t \in {PyInt(10), PyObject}}

\* no retriever constructed yet
NoRetriever == [py |-> "none"]

\* RetrieverBase.__init__ and LocalRetriever.__init__: the fields are copied
Constructed(cfg) ==
    [cfg |-> cfg, batch_size |-> ItemsGet(cfg.items, "batch_size", PyNone).v]

Construct(cfg) ==
    /\ self = NoRetriever
    /\ self' = Constructed(cfg)
    /\ UNCHANGED <<procs, env, index, store, pc, loc, out, gh, hist, ncalls, nfaults,
                   canIn, canOut, ranker, lru, maint, prov>>

\* wrapper, lines 56-83, on a retriever whose config goes through line 73
CallConstructed(c, query, arg, kw) ==
    /\ self # NoRetriever
    /\ IsDirect(arg, env) \/ Canonicalizable(self.cfg)
    /\ Call(c, query, arg, kw)

\* wrapper, lines 56-73: dataclass_to_dict(self.cfg) raises
CallRejected(c, query, arg, kw) ==
    /\ self # NoRetriever
    /\ pc[c] = "idle"
    /\ ncalls < MaxCalls
    /\ ~IsDirect(arg, env)
    /\ ~Canonicalizable(self.cfg)
    /\ ncalls' = ncalls + 1
    /\ loc' = [loc EXCEPT ![c] =
                 [NoLocals EXCEPT !.query = query, !.arg = arg, !.search_kwargs = kw]]
    /\ gh' = [gh EXCEPT ![c] = [NoGhost EXCEPT !.store0 = store]]
    /\ pc' = [pc EXCEPT ![c] = "done"]
    /\ out' = [out EXCEPT ![c] = Raised("ValidationError")]
    /\ UNCHANGED <<procs, env, self, index, store, hist, nfaults, canIn, canOut, ranker, lru, maint, prov>>

InitCtor ==
    /\ InitCommon
    /\ env = Absent
    /\ self = NoRetriever
    /\ canIn = NoCanon
    /\ canOut = NoCanon
    /\ ranker = NoRanker
    /\ lru = NoLru

NextCtor ==
    \/ \E cfg \in CtorCfgs : Construct(cfg)
    \/ \E c \in procs, query \in QuerySeqs, arg \in {Absent, PyStr("True")} :
            CallConstructed(c, query, arg, PyDict(<<>>))
    \/ \E c \in procs, query \in QuerySeqs : CallRejected(c, query, Absent, PyDict(<<>>))
    \/ \E c \in procs : Lookup(c)
    \/ \E c \in procs : Split(c)
    \/ \E c \in procs : SearchBatchOk(c)
    \/ \E c \in procs : SearchReturn(c)
    \/ \E c \in procs : Update(c)
    \/ \E c \in procs : Check(c)
    \/ \E c \in procs : Return(c)

SpecCtor == InitCtor /\ [][NextCtor]_vars

(***************************************************************************)
(* Several retrievers of one process.  RETRIEVAL_CACHE is a module global  *)
(* (lines 18-32): retrievers of different configs, and calls with          *)
(* different options, read and write the one store.  The caller turns from *)
(* one retriever to another between searches.                              *)
(***************************************************************************)
\* the configs of the retrievers: two values of top_k, and the first config
\* once more as a DictConfig with its fields in another order
SepCfgs ==
    {LocalRetrieverConfigTopK(1, PyInt(10)),
     LocalRetrieverConfigTopK(1, PyInt(5)),
     PyDictConfig(Reversed(LocalRetrieverConfigTopK(1, PyInt(10)).items))}

SepRetrievers == {Constructed(cfg) : cfg \in SepCfgs}

\* the next search is made on another retriever
Reconfigure ==
    /\ Idle
    /\ self' \in SepRetrievers \ {self}
    /\ UNCHANGED <<procs, env, index, store, pc, loc, out, gh, hist, ncalls, nfaults,
                   canIn, canOut, ranker, lru, maint, prov>>

InitSep ==
    /\ InitCommon
    /\ env = Absent
    /\ self \in SepRetrievers
    /\ canIn = NoCanon
    /\ canOut = NoCanon
    /\ ranker = NoRanker
    /\ lru = NoLru

NextSep ==
    \/ \E c \in procs, query \in QuerySeqs, kw \in GivenKwargs : Call(c, query, Absent, kw)
    \/ \E c \in procs : Lookup(c)
    \/ \E c \in procs : Split(c)
    \/ \E c \in procs : SearchBatchOk(c)
    \/ \E c \in procs : SearchReturn(c)
    \/ \E c \in procs : Update(c)
    \/ \E c \in procs : Check(c)
    \/ \E c \in procs : Return(c)
    \/ AddPassages
    \/ Reconfigure

SpecSep == InitSep /\ [][NextSep]_vars

(***************************************************************************)
(* The maintenance entrypoint (entrypoints/cache.py): main(config) clears  *)
(* RETRIEVAL_CACHE or exports it to a file, one record per line.  It is a  *)
(* program of its own, run on the store while no search is in flight.      *)
(***************************************************************************)
\* number of runs of the entrypoint in one behaviour
MaxRuns == 1

\* Config.action: Choices(["clear", "export", "_"]), "_" when none is given
Actions == {"clear", "export", "_"}

\* the character of the text s at position i
Ch(s, i) == SubSeq(s, i, i)

\* the position of the first double quote of s at or after i
RECURSIVE QuoteFrom(_, _)
QuoteFrom(s, i) == IF Ch(s, i) = "\"" THEN i ELSE QuoteFrom(s, i + 1)

Digits == "0123456789"

IsDigit(ch) == \E d \in 1..10 : Ch(Digits, d) = ch

DigitValue(ch) == (CHOOSE d \in 1..10 : Ch(Digits, d) = ch) - 1

\* json.loads on a number: the digits from position i on
RECURSIVE ParseDigits(_, _, _)
ParseDigits(s, i, acc) ==
    IF i <= Len(s) /\ IsDigit(Ch(s, i))
    THEN ParseDigits(s, i + 1, 10 * acc + DigitValue(Ch(s, i)))
    ELSE [value |-> PyInt(acc), next |-> i]

\* json.loads on the value that starts at position i of s: the Python value
\* and the position after its text.  Objects become dicts in the order of the
\* text, strings str, numbers int, true/false bool, null None.
RECURSIVE ParseValue(_, _)
RECURSIVE ParseMembers(_, _, _)
ParseMembers(s, i, pairs) ==
    LET j == QuoteFrom(s, i + 1)
        v == ParseValue(s, j + 3)
        ps == Append(pairs, <<SubSeq(s, i + 1, j - 1), v.value>>)
    IN  IF Ch(s, v.next) = ","
        THEN ParseMembers(s, v.next + 2, ps)
        ELSE [value |-> PyDict(ps), next |-> v.next + 1]

ParseValue(s, i) ==
    CASE Ch(s, i) = "{" ->
            IF Ch(s, i + 1) = "}" THEN [value |-> PyDict(<<>>), next |-> i + 2]
            ELSE ParseMembers(s, i + 1, <<>>)
      [] Ch(s, i) = "\"" ->
            LET j == QuoteFrom(s, i + 1)
            IN  [value |-> PyStr(SubSeq(s, i + 1, j - 1)), next |-> j + 1]
      [] Ch(s, i) = "t" -> [value |-> PyBool(TRUE), next |-> i + 4]
      [] Ch(s, i) = "f" -> [value |-> PyBool(FALSE), next |-> i + 5]
      [] Ch(s, i) = "n" -> [value |-> PyNone, next |-> i + 4]
      [] OTHER -> ParseDigits(s, i, 0)

\* json.loads(key)
json_loads(s) == ParseValue(s, 1).value

\* d[name] = v on a dict: the value replaced in place, or the pair added last
DictSet(d, name, v) ==
    IF \E i \in 1..Len(d.items) : d.items[i][1] = name
    THEN PyDict([i \in 1..Len(d.items) |->
                   IF d.items[i][1] = name THEN <<name, v>> ELSE d.items[i]])
    ELSE PyDict(Append(d.items, <<name, v>>))

\* a record without the stored contexts
ExportRecordKeyOnly(key, value) == json_loads(key)

\* lines 30-31: data = json.loads(key); data["retrieved_contexts"] = value
ExportRecord(key, value) == DictSet(json_loads(key), "retrieved_contexts", value)

\* RETRIEVAL_CACHE.clear()
CacheClear(st) == <<>>

\* for key in RETRIEVAL_CACHE: every stored key once, in the store's order
CacheIterations(st) ==
    {f \in [1..Cardinality(DOMAIN st) -> DOMAIN st] :
        \A a, b \in 1..Cardinality(DOMAIN st) : a # b => f[a] # f[b]}

\* RETRIEVAL_CACHE[key]
CacheGetItem(st, k) == st[k]

\* a match that takes every action but export for clear
MatchedClearByDefault(action) == IF action = "export" THEN "export" ELSE "clear"

\* match config.action (lines 24-34): the case taken
Matched(action) ==
    CASE action = "clear" -> "clear"
      [] action = "export" -> "export"
      [] OTHER -> "_"

\* the record of a run of main
Ran(action, result, file) ==
    [runs |-> maint.runs + 1, action |-> action, out |-> result, file |-> file,
     before |-> store, calls |-> ncalls]

\* main(config), lines 22-35; the file is kept as the records written to it,
\* each line of the file being the JSON text of one record
Main(action) ==
    /\ Idle
    /\ maint.runs < MaxRuns
    /\ CASE Matched(action) = "clear" ->
              /\ store' = CacheClear(store)
              /\ maint' = Ran(action, Returned(PyNone), maint.file)
         [] Matched(action) = "export" ->
              /\ store' = store
              /\ \E keys \in CacheIterations(store) :
                    maint' = Ran(action, Returned(PyNone),
                                 [i \in 1..Len(keys) |->
                                    ExportRecord(keys[i], CacheGetItem(store, keys[i]))])
         [] OTHER ->
              /\ store' = store
              /\ maint' = Ran(action, Raised("ValueError"), maint.file)
    /\ UNCHANGED <<procs, env, self, index, pc, loc, out, gh, hist, ncalls, nfaults,
                   canIn, canOut, ranker, lru, prov>>

NextMaint ==
    \/ \E c \in procs, query \in QuerySeqs, kw \in KwargsSet : Call(c, query, Absent, kw)
    \/ \E c \in procs : Lookup(c)
    \/ \E c \in procs : Split(c)
    \/ \E c \in procs : SearchBatchOk(c)
    \/ \E c \in procs : SearchReturn(c)
    \/ \E c \in procs : Update(c)
    \/ \E c \in procs : Check(c)
    \/ \E c \in procs : Return(c)
    \/ AddPassages
    \/ \E action \in Actions : Main(action)

SpecMaint == InitFail /\ [][NextMaint]_vars

(***************************************************************************)
(* The claims.                                                             *)
(***************************************************************************)
\* the call of caller c took the cached path of the wrapper
Cached(c) == pc[c] # "idle" /\ ~loc[c].direct

\* the key the wrapper computed for the query at position i of c's call
KeyAt(c, i) == loc[c].keys[i]

\* position i of c's call had no entry when the call started
MissedAt(c, i) == KeyAt(c, i) \notin DOMAIN gh[c].store0

\* the positions of c's call that had no entry, ascending
RECURSIVE MissPositionsFrom(_, _)
MissPositionsFrom(c, i) ==
    IF i > Len(loc[c].query) THEN <<>>
    ELSE (IF MissedAt(c, i) THEN <<i>> ELSE <<>>) \o MissPositionsFrom(c, i + 1)

MissPositions(c) == MissPositionsFrom(c, 1)

\* C1: the wrapped search is invoked with exactly the queries that missed, in
\* their order in Q, and with no query in it that had an entry; and it is not
\* invoked at all when nothing missed.
C1_PartialHit ==
    \A c \in procs :
        (Cached(c) /\ pc[c] \notin {"lookup"}) =>
            LET m == MissPositions(c)
            IN  /\ gh[c].invoked = (m # <<>>)
                /\ gh[c].funcArg = [j \in 1..Len(m) |-> loc[c].query[m[j]]]
                /\ \A j \in 1..Len(gh[c].funcArg) :
                      CacheKey(self.cfg, gh[c].funcArg[j], loc[c].search_kwargs)
                          \notin DOMAIN gh[c].store0

\* C1 witness: a call over [hit, miss] handed the backend the one miss
C1_Witness ==
    \E c \in procs :
        /\ Cached(c) /\ pc[c] = "done"
        /\ Len(loc[c].query) = 2
        /\ ~MissedAt(c, 1) /\ MissedAt(c, 2)
        /\ gh[c].funcArg = <<loc[c].query[2]>>
        /\ out[c].status = "ok"

\* the answer a well-behaved backend gives for position i of c's call
FreshAt(c, i) == Answer(FuncQuery(<<loc[c].query[i]>>, loc[c].search_kwargs)[1], index)

\* the contexts v are those whose dict forms are stored as d
StoredAs(v, d) ==
    /\ IsList(v) /\ IsList(d)
    /\ Len(v.items) = Len(d.items)
    /\ \A j \in 1..Len(v.items) :
          /\ IsRetrievedContext(v.items[j])
          /\ d.items[j] = [py |-> "dict", retriever |-> v.items[j].retriever,
                           query |-> v.items[j].query, source |-> v.items[j].source,
                           score |-> v.items[j].score, data |-> v.items[j].data]

\* C2: with a backend that returns one result list per query in input order, a
\* cached search over Q returns Len(Q) result lists, the i-th being the stored
\* value when Q[i] had an entry and the backend's fresh answer when it had none.
C2_OrderPreserved ==
    \A c \in procs :
        (Cached(c) /\ pc[c] = "done" /\ WellFormed(gh[c])) =>
            /\ out[c].status = "ok"
            /\ Len(out[c].value) = Len(loc[c].query)
            /\ \A i \in 1..Len(loc[c].query) :
                  IF MissedAt(c, i)
                  THEN out[c].value[i] = FreshAt(c, i)
                  ELSE StoredAs(out[c].value[i], gh[c].store0[KeyAt(c, i)])

\* C2 witness: [hit, miss] returned the old stored value, then the fresh one
C2_Witness ==
    \E c \in procs :
        /\ Cached(c) /\ pc[c] = "done" /\ WellFormed(gh[c])
        /\ Len(loc[c].query) = 2
        /\ ~MissedAt(c, 1) /\ MissedAt(c, 2)
        /\ out[c].status = "ok"
        /\ out[c].value[1] = PyList(<<>>)
        /\ out[c].value[2] = FreshAt(c, 2)
        /\ out[c].value[2] # PyList(<<>>)

\* C3: a cached search that repeats an earlier cached search (same Q, same
\* search options, same config; the backend honoured its contract in the
\* earlier one) returns the values the earlier one returned and does not
\* invoke the backend.
C3_Transparency ==
    \A c \in procs :
        (/\ Cached(c) /\ pc[c] = "done"
         /\ hist.set
         /\ hist.query = loc[c].query
         /\ hist.search_kwargs = loc[c].search_kwargs) =>
            /\ out[c].status = "ok"
            /\ out[c].value = hist.value
            /\ ~gh[c].invoked
            /\ gh[c].batches = <<>>

\* C3 witness: the repeated search returned the first one's answers although
\* the backend would now answer otherwise
C3_Witness ==
    \E c \in procs :
        /\ Cached(c) /\ pc[c] = "done"
        /\ hist.set
        /\ hist.query = loc[c].query
        /\ hist.search_kwargs = loc[c].search_kwargs
        /\ Len(loc[c].query) = 2
        /\ out[c].status = "ok"
        /\ out[c].value = hist.value
        /\ FreshAt(c, 1) # out[c].value[1]

\* the call of c has neither read nor written the store
Untouched(c) ==
    /\ gh[c].reads = 0
    /\ gh[c].writes = {}
    /\ store = gh[c].store0

\* C4: a call whose disable_cache argument is true, the str "True" or the bool
\* True, reads and writes nothing in the store and returns the wrapped search's
\* output as it is.
C4_DisableBypass ==
    \A c \in procs :
        (pc[c] # "idle" /\ loc[c].arg \in {PyStr("True"), PyBool(TRUE)}) =>
            /\ Untouched(c)
            /\ out[c].status = "ok" => out[c].value = loc[c].final_results

C6_CanonOrderIndependent ==
    canOut # NoCanon =>
        (DenoteTriple(canIn[1]) = DenoteTriple(canIn[2]) => canOut[1] = canOut[2])

\* C6 witness: the nested pipeline config and the options written in different
\* orders (or the config held in the other representation), one key
C6_Witness ==
    /\ canOut # NoCanon
    /\ DenoteTriple(canIn[1]) = DenoteTriple(canIn[2])
    /\ canIn[1].cfg.items # canIn[2].cfg.items
    /\ canIn[1].cfg.items[1][1] = canIn[2].cfg.items[1][1]
    /\ canIn[1].search_kwargs # canIn[2].search_kwargs
    /\ canOut[1] = canOut[2]

\* the keys of the positions of c's call that had no entry
MissKeys(c) == {KeyAt(c, i) : i \in {j \in 1..Len(loc[c].query) : MissedAt(c, j)}}

\* C7: when a cached search has returned (backend within its contract), every
\* query of the call that missed has an entry under its key holding the
\* serialized fresh result of that query, and every other entry is as before.
C7_WriteBack ==
    \A c \in procs :
        (Cached(c) /\ pc[c] = "done" /\ out[c].status = "ok" /\ WellFormed(gh[c])) =>
            /\ \A i \in 1..Len(loc[c].query) :
                  MissedAt(c, i) =>
                      /\ KeyAt(c, i) \in DOMAIN store
                      /\ StoredAs(FreshAt(c, i), store[KeyAt(c, i)])
            /\ DOMAIN store = DOMAIN gh[c].store0 \cup MissKeys(c)
            /\ \A k \in DOMAIN gh[c].store0 : store[k] = gh[c].store0[k]
            /\ gh[c].writes = MissKeys(c)

\* C7 witness: [hit, miss] returned; the miss now has its entry, the hit's is as it was
C7_Witness ==
    \E c \in procs :
        /\ Cached(c) /\ pc[c] = "done" /\ out[c].status = "ok" /\ WellFormed(gh[c])
        /\ Len(loc[c].query) = 2
        /\ ~MissedAt(c, 1) /\ MissedAt(c, 2)
        /\ KeyAt(c, 2) \in DOMAIN store
        /\ store[KeyAt(c, 2)].items # <<>>
        /\ store[KeyAt(c, 1)] = gh[c].store0[KeyAt(c, 1)]

\* C8: when search_batch raises on a chunk, the call fails with that error, no
\* later chunk is dispatched, and the call has written nothing: the store is as
\* it was when the call started, also when earlier chunks had succeeded.
C8_BackendFailure ==
    \A c \in procs :
        \A i \in 1..Len(gh[c].modes) :
            gh[c].modes[i] = "raise" =>
                /\ i = Len(gh[c].modes)
                /\ Len(gh[c].batches) = i
                /\ pc[c] = "done"
                /\ out[c] = Raised("BackendError")
                /\ gh[c].writes = {}
                /\ store = gh[c].store0

\* C8 witness: a cached search whose first chunk succeeded and second raised
C8_Witness ==
    \E c \in procs :
        /\ Cached(c) /\ pc[c] = "done"
        /\ gh[c].modes = <<"ok", "raise">>
        /\ out[c] = Raised("BackendError")
        /\ store = gh[c].store0

\* the wrapped search has handed its result to c's wrapper
FuncReturned(c) == Cached(c) /\ loc[c].k >= 1

\* what the wrapped search returned is a flat sequence of contexts
FlatResult(c) ==
    /\ loc[c].new_results # <<>>
    /\ \A j \in 1..Len(loc[c].new_results) : IsRetrievedContext(loc[c].new_results[j])

WrongCount(c) ==
    /\ \A j \in 1..Len(loc[c].new_results) : IsList(loc[c].new_results[j])
    /\ Len(loc[c].new_results) # Len(loc[c].new_query)

\* C10: when the backend returns fewer or more result lists than the misses it
\* was given, the call fails at once and has written no entry.
C10_WrongCount ==
    \A c \in procs :
        (FuncReturned(c) /\ WrongCount(c)) =>
            /\ pc[c] = "done" => out[c].status = "error"
            /\ gh[c].writes = {}
            /\ store = gh[c].store0

\* ceil(n / b)
CeilDiv(n, b) == (n + b - 1) \div b

\* the input of the wrapped search after preprocessing (none with no_preprocess)
PreprocessedInput(c) ==
    IF Truthy(ItemsGet(loc[c].search_kwargs.items, "no_preprocess", PyBool(FALSE)))
    THEN gh[c].funcArg
    ELSE [i \in 1..Len(gh[c].funcArg) |-> Preprocess(gh[c].funcArg[i])]

\* queries [(k-1)*b, min(k*b, n)) of q, k counted from 1
ChunkOf(q, k, b) ==
    [j \in 1..(Min(k * b, Len(q)) - (k - 1) * b) |-> q[(k - 1) * b + j]]

\* C11: LocalRetriever.search over n queries with batch_size b calls
\* search_batch ceil(n/b) times when no chunk fails (never more); the k-th call
\* receives queries [(k-1)*b, min(k*b, n)) of the preprocessed input, so every
\* chunk has at most b queries and only the last may have fewer; what search
\* returns is the chunks' results one after the other, in input order.
C11_Chunking ==
    \A c \in procs :
        (pc[c] # "idle" /\ gh[c].invoked) =>
            LET q == PreprocessedInput(c)
                n == Len(q)
                b == self.batch_size
                calls == gh[c].batches
            IN  /\ Len(calls) <= CeilDiv(n, b)
                /\ \A k \in 1..Len(calls) :
                      /\ calls[k] = ChunkOf(q, k, b)
                      /\ Len(calls[k]) <= b
                      /\ Len(calls[k]) >= 1
                      /\ k < CeilDiv(n, b) => Len(calls[k]) = b
                /\ (pc[c] = "done" /\ out[c].status = "ok") =>
                      /\ Len(calls) = CeilDiv(n, b)
                      /\ out[c].value = [i \in 1..n |-> Answer(q[i], index)]

\* C11 witness: three queries, batch_size 2: a chunk of two preprocessed
\* queries, then a last chunk of one
C11_Witness ==
    \E c \in procs :
        /\ pc[c] = "done" /\ out[c].status = "ok"
        /\ self.batch_size = 2
        /\ gh[c].funcArg = <<"Q1", "q2", "Q1">>
        /\ gh[c].batches = << <<"q1", "q2">>, <<"q1">> >>
        /\ Len(out[c].value) = 3
        /\ index = 1

\* the ranker has returned a result
Ranked == ranker.pc = "done" /\ ranker.out.status = "ok"

\* the order of a stable sort by descending score: a higher score first, equal
\* scores in input order
StableDescending(scores) ==
    CHOOSE p \in Arrangements(Len(scores), Len(scores)) :
        \A a, b \in 1..Len(scores) :
            a < b => \/ scores[p[a] + 1] > scores[p[b] + 1]
                     \/ (scores[p[a] + 1] = scores[p[b] + 1] /\ p[a] < p[b])

\* C12: when the scoring primitive returns only scores, the candidates of the
\* result are in the order of descending score, candidates of equal score in
\* their input order (scores [0.5, 0.9, 0.5] for [A, B, C] give [B, A, C]).
C12_RankingStable ==
    (Ranked /\ IsNone(ranker.backend.indices)) =>
        LET sd == StableDescending(ranker.backend.scores.items)
            got == ranker.out.value.candidates
        IN  \A i \in 1..Len(got) : got[i] = ranker.candidates[sd[i] + 1]

\* C13: with reserve_num = r > 0 the result holds the first min(r, n) entries
\* of the full order (derived or supplied, of length n) and their scores; with
\* r <= 0 it holds all n.
C13_Truncation ==
    Ranked =>
        LET full == ranker.order
            r == ranker.reserve_num
            m == IF r > 0 THEN Min(r, Len(full)) ELSE Len(full)
            res == ranker.out.value
        IN  /\ Len(res.candidates) = m
            /\ \A i \in 1..m : res.candidates[i] = ranker.candidates[full[i] + 1]
            /\ IF IsNone(ranker.backend.scores) THEN IsNone(res.scores)
               ELSE /\ Len(res.scores.items) = m
                    /\ \A i \in 1..m :
                          res.scores.items[i] = ranker.backend.scores.items[full[i] + 1]

\* C13 witness: reserve_num 1, scores [0.5, 0.9, 0.5] for [A, B, C]: the result
\* is [B] with the one score 0.9
C13_Witness ==
    /\ Ranked
    /\ ranker.method = "rank"
    /\ ranker.reserve_num = 1
    /\ ranker.candidates = Candidates(3, "str")
    /\ IsNone(ranker.backend.indices)
    /\ ranker.backend.scores = PyList(<<5, 9, 5>>)
    /\ ranker.out.value.candidates = <<PyStr("B")>>
    /\ ranker.out.value.scores = PyList(<<9>>)

\* the score the primitive gave the candidate x of the call
ScoreGiven(x) ==
    ranker.backend.scores.items[CHOOSE i \in 1..Len(ranker.candidates) :
                                    ranker.candidates[i] = x]

\* C14: a result of rank or async_rank that carries scores has as many scores
\* as candidates, and the score at each position is the one the primitive gave
\* the candidate at that position.
C14_Alignment ==
    (Ranked /\ ~IsNone(ranker.out.value.scores)) =>
        LET res == ranker.out.value
        IN  /\ Len(res.candidates) = Len(res.scores.items)
            /\ \A i \in 1..Len(res.candidates) :
                  res.scores.items[i] = ScoreGiven(res.candidates[i])

\* C14 witness: async_rank, the primitive supplied the order [C, A] and the
\* scores [0.5, 0.9, 0.9] of contexts A, B, C: the result pairs C with 0.9, A with 0.5
C14_Witness ==
    /\ Ranked
    /\ ranker.method = "async_rank"
    /\ ranker.candidates = Candidates(3, "ctx")
    /\ ranker.backend.indices = PyList(<<2, 0>>)
    /\ ranker.backend.scores = PyList(<<5, 9, 9>>)
    /\ ranker.out.value.candidates = <<ranker.candidates[3], ranker.candidates[1]>>
    /\ ranker.out.value.scores = PyList(<<9, 5>>)

\* position i of c's call found no entry, or the store failed reading it
TreatedAsMiss(c, i) == MissedAt(c, i) \/ i \in gh[c].readFailed

\* C15: when the store fails on the lookup of a key, the failure does not leave
\* the wrapper: the query counts as a miss and is handed to the backend, and
\* (the backend answering) the search returns normally, with the backend's
\* answer for that query.
C15_ReadFailureIsMiss ==
    \A c \in procs :
        (Cached(c) /\ gh[c].readFailed # {}) =>
            /\ pc[c] # "lookup" =>
                  /\ gh[c].invoked
                  /\ \A i \in gh[c].readFailed :
                        \E j \in 1..Len(loc[c].new_indices) :
                            /\ loc[c].new_indices[j] = i
                            /\ gh[c].funcArg[j] = loc[c].query[i]
            /\ (pc[c] = "done" /\ WellFormed(gh[c])) =>
                  /\ out[c].status = "ok"
                  /\ Len(out[c].value) = Len(loc[c].query)
                  /\ \A i \in gh[c].readFailed : out[c].value[i] = FreshAt(c, i)

\* C15 witness: the read of a stored key failed; the search returned the
\* backend's present answer, not the stored one
C15_Witness ==
    \E c \in procs :
        /\ Cached(c) /\ pc[c] = "done" /\ out[c].status = "ok"
        /\ gh[c].readFailed = {1}
        /\ KeyAt(c, 1) \in DOMAIN gh[c].store0
        /\ gh[c].funcArg = <<loc[c].query[1]>>
        /\ out[c].value[1] = FreshAt(c, 1)
        /\ ~StoredAs(out[c].value[1], gh[c].store0[KeyAt(c, 1)])

\* C16: when the store fails on the write of a fresh result, the failure is
\* not raised and the search returns (the backend answering) one result per
\* query in input order: the fresh answer for a miss, the stored value for a hit.
C16_WriteFailureIsNoOp ==
    \A c \in procs :
        (Cached(c) /\ pc[c] = "done" /\ gh[c].writeFailed # {} /\ WellFormed(gh[c])) =>
            /\ out[c].status = "ok"
            /\ Len(out[c].value) = Len(loc[c].query)
            /\ \A i \in 1..Len(loc[c].query) :
                  IF TreatedAsMiss(c, i)
                  THEN out[c].value[i] = FreshAt(c, i)
                  ELSE StoredAs(out[c].value[i], gh[c].store0[KeyAt(c, i)])

\* C16 witness: [hit, miss], the write of the miss failed: both results
\* returned, in order, and no entry made
C16_Witness ==
    \E c \in procs :
        /\ Cached(c) /\ pc[c] = "done" /\ out[c].status = "ok"
        /\ Len(loc[c].query) = 2
        /\ ~MissedAt(c, 1) /\ MissedAt(c, 2)
        /\ gh[c].writeFailed = {KeyAt(c, 2)}
        /\ KeyAt(c, 2) \notin DOMAIN store
        /\ out[c].value[1] = PyList(<<>>)
        /\ out[c].value[2] = FreshAt(c, 2)
        /\ out[c].value[2] # PyList(<<>>)

\* the positions of new_query that chunk k of c's search covers
ChunkPositions(c, k) ==
    ((k - 1) * self.batch_size + 1)..Min(k * self.batch_size, Len(loc[c].new_query))

\* C19: when the caller of a cached search has given up between two chunks and
\* the search has ended, the results of every chunk that had been issued and
\* succeeded are in the store, under the keys of the chunk's queries.
C19_AbandonedChunksCached ==
    \A c \in procs :
        (Cached(c) /\ gh[c].abandoned /\ pc[c] = "done") =>
            \A k \in 1..Len(gh[c].modes) :
                gh[c].modes[k] = "ok" =>
                    \A j \in ChunkPositions(c, k) :
                        LET key == loc[c].keys[loc[c].new_indices[j]]
                        IN  /\ key \in DOMAIN store
                            /\ StoredAs(Answer(loc[c].fquery[j], index), store[key])

\* this step is a turn of c's update loop: a write of c to the store
Writes(c) == pc[c] = "update" /\ loc'[c].k = loc[c].k + 1

WrittenKey(c) == loc[c].keys[loc[c].new_indices[loc[c].k]]

WrittenValue(c) == loc[c].new_results[loc[c].k]

\* C17: with callers writing concurrently, every write takes effect when it
\* is made (the key then holds the value written, so of two writes to one key
\* the later one stays), a write leaves every other key as it was, and the
\* store changes by nothing but a caller's write: it never holds a value no
\* caller wrote.
C17_ConcurrentWriters ==
    [][/\ \A c \in procs :
              Writes(c) =>
                  /\ DOMAIN store' = DOMAIN store \cup {WrittenKey(c)}
                  /\ StoredAs(WrittenValue(c), store'[WrittenKey(c)])
                  /\ \A k \in DOMAIN store \ {WrittenKey(c)} : store'[k] = store[k]
       /\ store' # store => \E c \in procs : Writes(c)]_vars

\* C17 witness: two calls in flight wrote the same key with different values
\* (c an answer from before passages were added, d one from after) and d a
\* second key; c's write came later: the key holds c's value, d's other key d's.
C17_Witness ==
    \E c, d \in procs :
        /\ c # d
        /\ pc[c] = "done" /\ pc[d] = "done"
        /\ out[c].status = "ok" /\ out[d].status = "ok"
        /\ Len(loc[c].query) = 1 /\ Len(loc[d].query) = 2
        /\ KeyAt(c, 1) = KeyAt(d, 1) /\ KeyAt(d, 2) # KeyAt(d, 1)
        /\ KeyAt(c, 1) \in gh[c].writes
        /\ {KeyAt(d, 1), KeyAt(d, 2)} \subseteq gh[d].writes
        /\ out[c].value[1] # out[d].value[1]
        /\ StoredAs(out[c].value[1], store[KeyAt(c, 1)])
        /\ StoredAs(out[d].value[2], store[KeyAt(d, 2)])
        /\ out[d].value[2] # PyList(<<>>)

\* the answers the backend gives for the query q of a call of c, at any time
AnswersFor(c, q) ==
    {Answer(FuncQuery(<<q>>, loc[c].search_kwargs)[1], v) : v \in 0..MaxVer}

\* C18: however the steps of concurrent searches interleave, each call returns
\* one result list per query of its own input, in its input order, each an
\* answer of the backend for the query at that position.
C18_ConcurrentOrder ==
    \A c \in procs :
        pc[c] = "done" =>
            /\ out[c].status = "ok"
            /\ Len(out[c].value) = Len(loc[c].query)
            /\ \A i \in 1..Len(loc[c].query) :
                  out[c].value[i] \in AnswersFor(c, loc[c].query[i])

\* C18 witness: two calls in flight over the same two queries in opposite
\* orders, one of them served a query from the entry the other wrote meanwhile
C18_Witness ==
    \E c, d \in procs :
        /\ c # d
        /\ pc[c] = "done" /\ pc[d] = "done"
        /\ out[c].status = "ok" /\ out[d].status = "ok"
        /\ loc[c].query = <<"q1", "q2">>
        /\ loc[d].query = <<"q2", "q1">>
        /\ gh[d].store0 = <<>>
        /\ gh[d].funcArg = <<"q2">>
        /\ \A i \in 1..2 : out[c].value[i] # PyList(<<>>)
        /\ out[d].value = <<out[c].value[2], out[c].value[1]>>

\* the key accessed longest ago, by the access times at
LeastRecent(at) == CHOOSE k \in DOMAIN at : \A j \in DOMAIN at : at[k] <= at[j]

\* the last operation inserted a key that was not stored, into a full store
InsertedIntoFull ==
    /\ lru.pc = "open"
    /\ lru.last.op = "set"
    /\ lru.last.key \notin DOMAIN lru.last.atime
    /\ Cardinality(DOMAIN lru.last.atime) = LruMaxSize

\* C20: the store never holds more than maxsize keys; an insert of a new key
\* into a full store (the insert of key number maxsize + 1) leaves exactly
\* maxsize keys: the new key is among them, and the one key gone is the key
\* accessed (read or written) longest ago.
C20_LruEviction ==
    lru.pc = "open" =>
        /\ Cardinality(DOMAIN lru.data) <= LruMaxSize
        /\ InsertedIntoFull =>
              /\ Cardinality(DOMAIN lru.data) = LruMaxSize
              /\ lru.last.key \in DOMAIN lru.data
              /\ DOMAIN lru.data =
                     (DOMAIN lru.last.atime \cup {lru.last.key})
                         \ {LeastRecent(lru.last.atime)}

\* C20 witness: keys 1 and 2 set, key 1 read, key 3 set: key 2 is gone, not
\* key 1, the older insert
C20_Witness ==
    /\ InsertedIntoFull
    /\ lru.last.key = 3
    /\ DOMAIN lru.data = {1, 3}
    /\ lru.data[1] < lru.last.atime[2]
    /\ lru.last.atime[2] < lru.last.atime[1]

\* C21: a retriever config that cannot be canonicalised into a cache key is
\* rejected when the retriever is constructed: no retriever exists with such a
\* config, and no search on a constructed retriever fails on its config.
C21_RejectedAtConstruction ==
    /\ self # NoRetriever => Canonicalizable(self.cfg)
    /\ \A c \in procs : pc[c] = "done" => out[c] # Raised("ValidationError")

\* the texts of the call were handed to a scoring primitive
Scored == ranker.pc = "done" /\ ranker.backend # NoBackend

JustRan(action) == maint.action = action /\ ncalls = maint.calls

\* c's call is the first search started after the last run of the entrypoint
FirstSince(c) == Cached(c) /\ ncalls = maint.calls + 1

\* C23: after the clear action the store holds no entries, and the next
\* cached search misses on every query, the queries cached before the clear
\* among them: all are handed to the backend, whose present answers the search
\* returns.  A run with no action specified fails with ValueError and leaves
\* the store as it was.
C23_ClearAll ==
    /\ JustRan("clear") => (store = <<>> /\ maint.out.status = "ok")
    /\ \A c \in procs :
          (maint.action = "clear" /\ FirstSince(c) /\ pc[c] # "lookup") =>
              /\ loc[c].query # <<>> => gh[c].invoked
              /\ gh[c].funcArg = loc[c].query
              /\ pc[c] = "done" =>
                    /\ out[c].status = "ok"
                    /\ \A i \in 1..Len(loc[c].query) : out[c].value[i] = FreshAt(c, i)
    /\ maint.action = "_" =>
          /\ maint.out = Raised("ValueError")
          /\ JustRan("_") => store = maint.before

\* C23 witness: a query was cached, passages were added, the store cleared:
\* the next search for the query got the backend's new answer, not the old entry
C23_Witness ==
    \E c \in procs :
        /\ maint.action = "clear" /\ FirstSince(c)
        /\ pc[c] = "done" /\ out[c].status = "ok"
        /\ Len(loc[c].query) = 1
        /\ KeyAt(c, 1) \in DOMAIN maint.before
        /\ gh[c].funcArg = loc[c].query
        /\ out[c].value[1] = FreshAt(c, 1)
        /\ ~StoredAs(out[c].value[1], maint.before[KeyAt(c, 1)])

\* the value of the key name in the record (a dict) d
Field(d, name) == ItemsGet(d.items, name, Absent)

\* the record d is the one of the entry written for query q with options kw
RecordOf(d, q, kw) ==
    /\ {d.items[i][1] : i \in 1..Len(d.items)} =
           {"retriever_config", "query", "search_kwargs", "retrieved_contexts"}
    /\ Denote(Field(d, "retriever_config")) = Denote(self.cfg)
    /\ Field(d, "query") = PyStr(q)
    /\ Denote(Field(d, "search_kwargs")) = Denote(kw)
    /\ Field(d, "retrieved_contexts") = maint.before[CacheKey(self.cfg, q, kw)]

\* C24: the export writes as many records as the store has keys, and for
\* every entry, written by a search of query q with options kw on the
\* retriever, exactly one record, which carries the retriever's config (as a
\* plain mapping, equal field by field), q, kw and the contexts stored under
\* the entry's key; the export leaves the store as it was.
C24_ExportAll ==
    maint.action = "export" =>
        /\ maint.out.status = "ok"
        /\ Len(maint.file) = Cardinality(DOMAIN maint.before)
        /\ \A q \in Queries, kw \in KwargsSet :
              CacheKey(self.cfg, q, kw) \in DOMAIN maint.before =>
                  Cardinality({i \in 1..Len(maint.file) : RecordOf(maint.file[i], q, kw)}) = 1
        /\ JustRan("export") => store = maint.before

\* C24 witness: three entries, one of them of a search with no_preprocess and
\* one holding a context: three records, each entry's among them
C24_Witness ==
    /\ JustRan("export")
    /\ Len(maint.file) = 3
    /\ \E i \in 1..3 : RecordOf(maint.file[i], "q1", PyDict(<< <<"no_preprocess", PyBool(TRUE)>> >>))
    /\ \E i \in 1..3 : /\ RecordOf(maint.file[i], "q2", PyDict(<<>>))
                        /\ Field(maint.file[i], "retrieved_contexts").items # <<>>
    /\ store = maint.before

\* C25: a search called with the one query string q goes on as the search
\* called with [q]: its queries are [q], its one cache key is the key of q,
\* the wrapped search is handed [q] (when handed anything) and the backend
\* the one chunk made of it, and what it returns has length 1.
C25_SingleQuery ==
    \A c \in procs :
        (pc[c] # "idle" /\ loc[c].given.py = "str") =>
            LET q == loc[c].given.v
            IN  /\ loc[c].query = <<q>>
                /\ ~loc[c].direct =>
                      loc[c].keys = <<CacheKey(self.cfg, q, loc[c].search_kwargs)>>
                /\ gh[c].invoked =>
                      /\ gh[c].funcArg = <<q>>
                      /\ loc[c].fquery = FuncQuery(<<q>>, loc[c].search_kwargs)
                      /\ \A k \in 1..Len(gh[c].batches) : gh[c].batches[k] = loc[c].fquery
                /\ pc[c] = "done" => (out[c].status = "ok" /\ Len(out[c].value) = 1)

\* C25 witness: search("Q1") missed, the backend got ["q1"], one result list
\* came back and was stored under the key of "Q1"
C25_Witness ==
    \E c \in procs :
        /\ loc[c].given = PyStr("Q1")
        /\ pc[c] = "done" /\ ~loc[c].direct
        /\ gh[c].batches = << <<"q1">> >>
        /\ Len(out[c].value) = 1
        /\ out[c].value[1].items # <<>>
        /\ CacheKey(self.cfg, "Q1", loc[c].search_kwargs) \in DOMAIN store

\* C26: within one search, at most one call of search_batch is in flight at
\* any time, and the call for chunk k+1 is issued only when the call for chunk
\* k has returned: the calls issued are never more than one ahead of the calls
\* ended, and the chunk in flight is the one after the chunks ended.
C26_SequentialChunks ==
    \A c \in procs :
        /\ InFlight(c) \in {0, 1}
        /\ InFlight(c) = 1 =>
              /\ pc[c] = "search"
              /\ loc[c].idx = Len(gh[c].batches) * self.batch_size
              /\ \A k \in 1..Len(gh[c].modes) : gh[c].modes[k] = "ok"

\* C26 witness: three queries in chunks of one; the second chunk has returned,
\* the third is in flight
C26_Witness ==
    \E c \in procs :
        /\ self.batch_size = 1
        /\ Len(loc[c].fquery) = 3
        /\ gh[c].issued = 3
        /\ Len(gh[c].batches) = 2
        /\ Len(loc[c].final_results) = 2

\* the call of c was made with no_preprocess=True
NoPreprocess(c) == Field(loc[c].search_kwargs, "no_preprocess") = PyBool(TRUE)

\* all queries the backend primitive has been handed in c's search, in order
RECURSIVE Concat(_)
Concat(ss) == IF ss = <<>> THEN <<>> ELSE Head(ss) \o Concat(Tail(ss))

\* C27: the queries handed to search_batch in one search are, position by
\* position, the pipeline's outputs for the queries the search was given, and
\* with no_preprocess=True the given queries themselves.
C27_Preprocessing ==
    \A c \in procs :
        (pc[c] # "idle" /\ gh[c].invoked) =>
            LET given == gh[c].funcArg
                handed == Concat(gh[c].batches)
            IN  /\ Len(handed) <= Len(given)
                /\ \A i \in 1..Len(handed) :
                      handed[i] = IF NoPreprocess(c) THEN given[i] ELSE Preprocess(given[i])
                /\ (pc[c] = "done" /\ out[c].status = "ok") => Len(handed) = Len(given)

\* C27 witness: two searches of ["q2", "Q1"] have ended, one with
\* no_preprocess=False that handed the backend ["q2", "q1"], then one with
\* no_preprocess=True that handed it ["q2", "Q1"]
C27_Witness ==
    \E c \in procs :
        /\ pc[c] = "done" /\ out[c].status = "ok"
        /\ gh[c].funcArg = <<"q2", "Q1">>
        /\ NoPreprocess(c)
        /\ Concat(gh[c].batches) = <<"q2", "Q1">>
        /\ CacheKey(self.cfg, "Q1", PyDict(<< <<"no_preprocess", PyBool(FALSE)>> >>))
              \in DOMAIN store
        /\ store[CacheKey(self.cfg, "Q1", PyDict(<< <<"no_preprocess", PyBool(FALSE)>> >>))]
              = retrieved_to_dict(Answer("q1", 0))

\* C28: when the scoring primitive returns an order (indices), the result
\* holds the candidates at those indices, in that order, all of them or the
\* first reserve_num when reserve_num is positive, whether or not scores came
\* with the order and whatever they are.
C28_ExplicitOrder ==
    (Ranked /\ ~IsNone(ranker.backend.indices)) =>
        LET ix == ranker.backend.indices.items
            r == ranker.reserve_num
            m == IF r > 0 /\ r < Len(ix) THEN r ELSE Len(ix)
            got == ranker.out.value.candidates
        IN  /\ Len(got) = m
            /\ \A i \in 1..m : got[i] = ranker.candidates[ix[i] + 1]

\* C28 witness: the primitive gave the order [A, C, B] with scores
\* [0.5, 0.9, 0.9] and reserve_num is 2: the result is [A, C], the lowest
\* score first
C28_Witness ==
    /\ Ranked
    /\ ranker.method = "rank"
    /\ ranker.reserve_num = 2
    /\ ranker.candidates = Candidates(3, "str")
    /\ ranker.backend.indices = PyList(<<0, 2, 1>>)
    /\ ranker.backend.scores = PyList(<<5, 9, 9>>)
    /\ ranker.out.value.candidates = <<PyStr("A"), PyStr("C")>>
    /\ ranker.out.value.scores = PyList(<<5, 9>>)

\* the sequence q holds no value twice
NoRepeats(q) == \A i, j \in 1..Len(q) : q[i] = q[j] => i = j

\* C29: in a cached search the wrapped search is handed every query that
\* missed only once, however often it occurs in the call, and the call returns
\* the same result at every position of the same query.
C29_DedupWithinBatch ==
    \A c \in procs :
        (Cached(c) /\ gh[c].invoked) =>
            /\ NoRepeats(gh[c].funcArg)
            /\ (pc[c] = "done" /\ out[c].status = "ok" /\ WellFormed(gh[c])) =>
                  \A i, j \in 1..Len(loc[c].query) :
                      loc[c].query[i] = loc[c].query[j] => out[c].value[i] = out[c].value[j]

\* the contexts a and b have the same retriever, query, data, source and score
SameContext(a, b) ==
    /\ IsRetrievedContext(a) /\ IsRetrievedContext(b)
    /\ a.retriever = b.retriever
    /\ a.query = b.query
    /\ a.data = b.data
    /\ a.source = b.source
    /\ a.score = b.score

\* C30: a result list that was serialized into the store and is rebuilt on a
\* hit is a list of as many contexts as the backend returned, each with the
\* retriever, query, data, source and score of the original at its position.
C30_ContextRoundTrip ==
    canOut # NoCanon =>
        LET orig == canIn[2]
            back == canOut[1]
        IN  /\ IsList(back)
            /\ Len(back.items) = Len(orig.items)
            /\ \A i \in 1..Len(orig.items) : SameContext(back.items[i], orig.items[i])

\* C30 witness: a list of two contexts, one with a source and a score, one
\* with the defaults of both, came back from the store as it was
C30_Witness ==
    /\ canOut # NoCanon
    /\ Len(canIn[2].items) = 2
    /\ canIn[2].items[1].source = PyStr("wiki") /\ canIn[2].items[1].score = 7
    /\ canIn[2].items[2].source = PyNone /\ canIn[2].items[2].score = 0
    /\ canIn[2].items[1].data # canIn[2].items[2].data
    /\ canOut[1] = canIn[2]
    /\ store[canIn[1]].items[1].py = "dict"

\* what the ranker holds between calls: RankerConfig's two fields
RankerState(r) == <<r.reserve_num, r.ranking_field>>

\* C31: no step of rank or async_rank, and no second call on the same ranker,
\* changes the caller's candidate sequence (its elements, order, length) or the
\* ranker's fields; and every element of a returned result's candidate list is
\* one of the supplied candidates (the context itself, not its text), the
\* list being a value of its own: it is cut and ordered while the caller's
\* sequence stays as it was.
C31_InputUntouched ==
    [][/\ ranker'.candidates = ranker.candidates
       /\ ranker'.query = ranker.query
       /\ RankerState(ranker') = RankerState(ranker)
       /\ (ranker'.pc = "done" /\ ranker'.out.status = "ok") =>
              LET got == ranker'.out.value.candidates
              IN  \A i \in 1..Len(got) :
                      \E j \in 1..Len(ranker.candidates) : got[i] = ranker.candidates[j]]_vars

\* C31 witness: the second call (rank after async_rank) on contexts
\* [A, B, C] with reserve_num 2 returned the contexts [C, A]; the caller
\* still holds [A, B, C]
C31_Witness ==
    /\ ranker.pc = "done" /\ ranker.first.set
    /\ ranker.method = "rank"
    /\ ranker.reserve_num = 2
    /\ ranker.candidates = Candidates(3, "ctx")
    /\ ranker.out.status = "ok"
    /\ ranker.out.value.candidates = <<Candidates(3, "ctx")[3], Candidates(3, "ctx")[1]>>

\* the entry the lookup of c's i-th query found, if it found one
FoundAt(c, i) ==
    /\ pc[c] = "lookup"
    /\ i <= Len(loc[c].results)
    /\ ~IsNone(loc[c].results[i])

\* the write w was made for c's i-th query: the same query text, an equal
\* retriever config and equal options
WrittenFor(w, c, i) ==
    /\ w.query = loc[c].query[i]
    /\ Denote(w.cfg) = Denote(self.cfg)
    /\ Denote(w.search_kwargs) = Denote(loc[c].search_kwargs)

\* C32: the entry a cached search finds for a query was written, by every
\* write made under its key, for the same query text, an equal retriever
\* config and equal search options (and some write was); so an entry written
\* under another config value or another option is never found.
C32_KeySeparation ==
    \A c \in procs : \A i \in 1..Len(loc[c].query) :
        FoundAt(c, i) =>
            /\ \E w \in prov : w.key = KeyAt(c, i)
            /\ \A w \in prov : w.key = KeyAt(c, i) => WrittenFor(w, c, i)

\* C32 witness: q1 was written without options by the retriever with top_k
\* 10, its config a dataclass; a search for q1 without options on a
\* retriever of an equal config, held as a DictConfig in another field
\* order, finds that entry
C32_Witness ==
    \E c \in procs :
        /\ FoundAt(c, 1)
        /\ loc[c].query[1] = "q1"
        /\ self.cfg.py = "DictConfig"
        /\ \E w \in prov : w.key = KeyAt(c, 1) /\ w.cfg.py = "dataclass"

\* position i of c's call had an entry holding the empty list when the call
\* started
StoredEmptyAt(c, i) ==
    /\ ~MissedAt(c, i)
    /\ gh[c].store0[KeyAt(c, i)] = PyList(<<>>)

\* C33: an empty result list is stored like any other, and an entry holding
\* the empty list is a hit: its position is not among the misses, the call
\* returns the empty list there, and a call all of whose queries have such
\* entries does not invoke the backend.
C33_EmptyCached ==
    \A c \in procs :
        /\ (Cached(c) /\ pc[c] = "done" /\ out[c].status = "ok" /\ WellFormed(gh[c])) =>
              \A i \in 1..Len(loc[c].query) :
                  (MissedAt(c, i) /\ FreshAt(c, i) = PyList(<<>>)) =>
                      /\ KeyAt(c, i) \in DOMAIN store
                      /\ store[KeyAt(c, i)] = PyList(<<>>)
        /\ (Cached(c) /\ pc[c] # "lookup") =>
              /\ \A i \in 1..Len(loc[c].query) :
                    StoredEmptyAt(c, i) =>
                        /\ \A j \in 1..Len(loc[c].new_indices) : loc[c].new_indices[j] # i
                        /\ (pc[c] = "done" /\ out[c].status = "ok") =>
                              out[c].value[i] = PyList(<<>>)
              /\ (\A i \in 1..Len(loc[c].query) : StoredEmptyAt(c, i)) =>
                    ~gh[c].invoked /\ gh[c].batches = <<>>

\* C33 witness: q1 has an entry holding the empty list, written while the
\* backend had nothing for it; the backend has an answer now, and a cached
\* search for q1 returned the empty list without invoking it
C33_Witness ==
    \E c \in procs :
        /\ Cached(c) /\ pc[c] = "done" /\ out[c].status = "ok"
        /\ loc[c].query = <<"q1">>
        /\ StoredEmptyAt(c, 1)
        /\ FreshAt(c, 1) # PyList(<<>>)
        /\ out[c].value = <<PyList(<<>>)>>
        /\ ~gh[c].invoked
        /\ \E w \in prov : w.key = KeyAt(c, 1)

\* the step leaves every entry of the store as it is
EntriesKept ==
    \A k \in DOMAIN store : k \in DOMAIN store' /\ store'[k] = store[k]

\* the step is a run of the maintenance entrypoint with action clear
ClearStep == maint'.runs = maint.runs + 1 /\ maint'.action = "clear"

\* every query of a running cached search that had an entry when the search
\* started is answered from that entry and was not handed to the backend
ServedFromStore ==
    \A c \in procs :
        (Cached(c) /\ pc[c] # "lookup") =>
            \A i \in 1..Len(loc[c].query) :
                ~MissedAt(c, i) =>
                    /\ \A j \in 1..Len(gh[c].funcArg) : gh[c].funcArg[j] # loc[c].query[i]
                    /\ (pc[c] = "done") =>
                          /\ out[c].status = "ok"
                          /\ StoredAs(out[c].value[i], gh[c].store0[KeyAt(c, i)])

\* C34: an entry of the store stays as it is through every step but a clear
\* (a change of the backend's contents included), and every cached search
\* started while a query has an entry returns that entry for it and does not
\* hand the query to the backend, whatever the backend would answer now.
C34_NoInvalidation ==
    [][(EntriesKept \/ ClearStep) /\ ServedFromStore']_vars

\* C34 witness: q1 and q2 got their entries while the backend had nothing
\* for them; the backend's contents then changed, no clear was run, and a
\* cached search for both returned the stored (empty) lists, though the backend
\* now has an answer, without invoking it
C34_Witness ==
    \E c \in procs :
        /\ Cached(c) /\ pc[c] = "done" /\ out[c].status = "ok"
        /\ maint.runs = 0
        /\ loc[c].query = <<"q1", "q2">>
        /\ ~MissedAt(c, 1) /\ ~MissedAt(c, 2)
        /\ index > 0
        /\ FreshAt(c, 1) # out[c].value[1]
        /\ FreshAt(c, 2) # out[c].value[2]
        /\ ~gh[c].invoked

\* the lookup of c's running call found no entry for its i-th query
ObservedMiss(c, i) ==
    /\ Cached(c) /\ pc[c] # "lookup"
    /\ \E j \in 1..Len(loc[c].new_indices) : loc[c].new_indices[j] = i

\* what the backend returned to c for its i-th query, a miss
OwnResult(c, i) ==
    loc[c].new_results[CHOOSE j \in 1..Len(loc[c].new_indices) : loc[c].new_indices[j] = i]

\* C35: when two concurrent cached searches have both found no entry for the
\* same key, both have handed the query to the backend; each returns what the
\* backend returned to itself, and when both have returned the store holds
\* one entry under the key, a result one of the two returned for that query.
C35_NoSingleFlight ==
    \A c, d \in procs : \A i \in 1..Len(loc[c].query), j \in 1..Len(loc[d].query) :
        (/\ c # d
         /\ ObservedMiss(c, i) /\ ObservedMiss(d, j)
         /\ KeyAt(c, i) = KeyAt(d, j)) =>
            /\ gh[c].invoked /\ gh[d].invoked
            /\ \E a \in 1..Len(gh[c].funcArg) : gh[c].funcArg[a] = loc[c].query[i]
            /\ \E b \in 1..Len(gh[d].funcArg) : gh[d].funcArg[b] = loc[d].query[j]
            /\ (pc[c] = "done" /\ pc[d] = "done") =>
                  /\ out[c].status = "ok" /\ out[d].status = "ok"
                  /\ out[c].value[i] = OwnResult(c, i)
                  /\ out[d].value[j] = OwnResult(d, j)
                  /\ KeyAt(c, i) \in DOMAIN store
                  /\ \E e \in {c, d} : \E m \in 1..Len(loc[e].query) :
                        /\ KeyAt(e, m) = KeyAt(c, i)
                        /\ StoredAs(out[e].value[m], store[KeyAt(c, i)])

\* C35 witness: two searches for q1 were in flight together, both found no
\* entry and both invoked the backend, which answered one before and the other
\* after its contents changed: the callers hold different results, and the one
\* entry of the store is the result of the caller that wrote last
C35_Witness ==
    \E c, d \in procs :
        /\ c # d
        /\ pc[c] = "done" /\ pc[d] = "done"
        /\ loc[c].query = <<"q1">> /\ loc[d].query = <<"q1">>
        /\ ObservedMiss(c, 1) /\ ObservedMiss(d, 1)
        /\ gh[c].funcArg = <<"q1">> /\ gh[d].funcArg = <<"q1">>
        /\ out[c].value[1] # out[d].value[1]
        /\ DOMAIN store = {KeyAt(c, 1)}
        /\ StoredAs(out[d].value[1], store[KeyAt(c, 1)])

\* the names of the mapping d
Names(d) == {d.items[i][1] : i \in 1..Len(d.items)}

\* C36: whatever value of disable_cache a call passes, the keywords handed on
\* to the wrapped search do not hold disable_cache, and the key text of every
\* query of a cached call has no disable_cache among its search options: it
\* is, character for character, the key of the same call without the keyword.
C36_OptionConsumed ==
    \A c \in procs :
        pc[c] # "idle" =>
            /\ "disable_cache" \notin Names(loc[c].search_kwargs)
            /\ Cached(c) =>
                  \A i \in 1..Len(loc[c].query) :
                      /\ "disable_cache" \notin
                            Names(Field(json_loads(KeyAt(c, i)), "search_kwargs"))
                      /\ KeyAt(c, i) = CacheKey(self.cfg, loc[c].query[i],
                                                Popped(loc[c].search_kwargs, "disable_cache"))

\* C36 witness: a search for q1, q2 passing disable_cache="False" and
\* no_preprocess=True found the entry of q1 and wrote the one of q2; both keys
\* carry no_preprocess alone as search options
C36_Witness ==
    \E c \in procs :
        /\ Cached(c) /\ pc[c] = "done" /\ out[c].status = "ok"
        /\ loc[c].arg = PyStr("False")
        /\ loc[c].query = <<"q1", "q2">>
        /\ ~MissedAt(c, 1) /\ MissedAt(c, 2)
        /\ gh[c].funcArg = <<"q2">>
        /\ KeyAt(c, 2) \in DOMAIN store
        /\ \A i \in 1..2 :
              Field(json_loads(KeyAt(c, i)), "search_kwargs")
                  = PyDict(<< <<"no_preprocess", PyBool(TRUE)>> >>)

\* a write was made for the raw query and the options of c's i-th position
WrittenRaw(c, i) ==
    \E w \in prov : w.query = loc[c].query[i] /\ w.search_kwargs = loc[c].search_kwargs

\* C37: the key text of every query of a cached call carries the query as
\* the caller passed it; and a query the store was never written for, as the
\* caller passed it and with the call's options, is a miss handed to the
\* wrapped search, whatever was written for other queries of the same
\* preprocessed text.
C37_RawQueryKey ==
    \A c \in procs :
        Cached(c) =>
            /\ \A i \in 1..Len(loc[c].query) :
                  Field(json_loads(KeyAt(c, i)), "query") = PyStr(loc[c].query[i])
            /\ pc[c] = "search" =>
                  \A i \in 1..Len(loc[c].query) :
                      ~WrittenRaw(c, i) =>
                          /\ \E j \in 1..Len(loc[c].new_indices) :
                                /\ loc[c].new_indices[j] = i
                                /\ gh[c].funcArg[j] = loc[c].query[i]
            /\ (pc[c] \notin {"lookup", "search"} /\ ~gh[c].invoked) =>
                  \A i \in 1..Len(loc[c].query) : WrittenRaw(c, i)

\* C37 witness: q1 had its entry; a search for Q1 without options missed, the
\* backend was searched with the text q1 again, and the store now has an
\* entry for each of q1 and Q1
C37_Witness ==
    \E c \in procs :
        /\ Cached(c) /\ pc[c] = "done" /\ out[c].status = "ok"
        /\ loc[c].query = <<"Q1">>
        /\ loc[c].search_kwargs = PyDict(<<>>)
        /\ CacheKey(self.cfg, "q1", PyDict(<<>>)) \in DOMAIN gh[c].store0
        /\ MissedAt(c, 1)
        /\ gh[c].funcArg = <<"Q1">>
        /\ gh[c].batches = << <<"q1">> >>
        /\ DOMAIN store = {CacheKey(self.cfg, "q1", PyDict(<<>>)), KeyAt(c, 1)}
        /\ Cardinality(DOMAIN store) = 2

\* C38: a call of rank or async_rank with no candidates never reaches the
\* scoring primitive (async_rank does not get to its await) and ends with
\* IndexError, not with a result.
C38_EmptyCandidates ==
    ranker.candidates = <<>> =>
        /\ ranker.pc \in {"start", "done"}
        /\ ranker.nrank = 0
        /\ ranker.backend = NoBackend
        /\ ranker.pc = "done" => ranker.out = Raised("IndexError")

\* C38 witness: async_rank of a ranker with a ranking field and reserve_num
\* 2, called with no candidates, has ended with IndexError
C38_Witness ==
    /\ ranker.pc = "done"
    /\ ranker.method = "async_rank"
    /\ ranker.candidates = <<>>
    /\ ranker.ranking_field = PyStr("text")
    /\ ranker.reserve_num = 2
    /\ ranker.out = Raised("IndexError")

\* the context that stands for a failed search of q
Placeholder(q) ==
    [py |-> "RetrievedContext", retriever |-> "ElasticSearch", query |-> q,
     data |-> <<>>, source |-> PyStr(IndexName), score |-> 0]

\* the server does not answer q with success
FailedFor(q) == ~canIn.received \/ canIn.by[q].status # 200

\* the text position i of c's call is searched with
SearchedAs(c, i) == FuncQuery(<<loc[c].query[i]>>, loc[c].search_kwargs)[1]

\* C39: the result lists formed so far in a call are one per query sent, in
\* the order sent: the single placeholder (empty data, score 0.0) for a query
\* the server failed or did not answer, and one context per document found
\* otherwise; the cached call returns normally one list per query, the
\* placeholder for a failed miss, which is then stored under the query's key;
\* and a query whose entry holds a placeholder is answered with it and not
\* sent to the server.
C39_ElasticAssembly ==
    \A c \in procs :
        Cached(c) =>
            /\ Len(loc[c].final_results) = Min(loc[c].idx, Len(loc[c].fquery))
            /\ \A i \in 1..Len(loc[c].final_results) :
                  LET q == loc[c].fquery[i]
                      got == loc[c].final_results[i]
                  IN  IF FailedFor(q)
                      THEN got = PyList(<<Placeholder(q)>>)
                      ELSE /\ Len(got.items) = Len(canIn.by[q].hits)
                           /\ \A j \in 1..Len(got.items) :
                                 /\ got.items[j].query = q
                                 /\ got.items[j].data = canIn.by[q].hits[j]._source
                                 /\ got.items[j].score = canIn.by[q].hits[j]._score
            /\ pc[c] = "done" =>
                  /\ out[c].status = "ok"
                  /\ Len(out[c].value) = Len(loc[c].query)
                  /\ \A i \in 1..Len(loc[c].query) :
                        IF MissedAt(c, i)
                        THEN FailedFor(SearchedAs(c, i)) =>
                                /\ out[c].value[i] = PyList(<<Placeholder(SearchedAs(c, i))>>)
                                /\ KeyAt(c, i) \in DOMAIN store
                                /\ StoredAs(out[c].value[i], store[KeyAt(c, i)])
                        ELSE /\ StoredAs(out[c].value[i], gh[c].store0[KeyAt(c, i)])
                             /\ \A j \in 1..Len(gh[c].funcArg) :
                                   gh[c].funcArg[j] # loc[c].query[i]

\* C39 witness: q1 was searched while the server failed and its placeholder
\* stored; the server answers now, with a document for q1 and for q2; a
\* cached search for q1, q2 returned the placeholder for q1 and the document
\* for q2, and only q2 was sent
C39_Witness ==
    \E c \in procs :
        /\ Cached(c) /\ pc[c] = "done" /\ out[c].status = "ok"
        /\ loc[c].query = <<"q1", "q2">>
        /\ canIn.received
        /\ canIn.by["q1"].status = 200 /\ canIn.by["q1"].hits # <<>>
        /\ ~MissedAt(c, 1) /\ MissedAt(c, 2)
        /\ out[c].value[1] = PyList(<<Placeholder("q1")>>)
        /\ out[c].value[2].items[1].data = [id |-> 1]
        /\ gh[c].funcArg = <<"q2">>
        /\ store[KeyAt(c, 1)].items[1].data = <<>>

=============================================================================
